---- MODULE Spec2Model ----
(***************************************************************************)
(* A model of tfdeploy (tensorflow-deploy-rust): the execution planner     *)
(* (Plan::for_nodes), the executor (ModelState) of src/src/lib.rs, and the *)
(* solver loop (Solver::infer) of src/src/analyser/interface/solver.rs.    *)
(*                                                                         *)
(* Encodings.  Option<T> is a sequence of length at most one: <<>> is None *)
(* and <<v>> is Some(v).  Node ids are the naturals 0 .. n-1, as in the    *)
(* code; `nodes` is a function from ids to node records.  A Result is a    *)
(* record whose field `kind` is "ok", "err" or "panic".                    *)
(***************************************************************************)
EXTENDS Integers, Sequences, FiniteSets, TLC

VARIABLES
    nodes,           \* Model.nodes: id -> [id, inputs, op]
    targets,         \* Plan::for_nodes: the `targets` argument (a sequence of ids)
    order,           \* Plan::for_nodes: `order`
    done,            \* Plan::for_nodes: the bit set `done`
    needed,          \* Plan::for_nodes: the bit set `needed`
    missing,         \* Plan::for_nodes: what is left of `missing.iter()` in this pass
    done_something,  \* Plan::for_nodes: `done_something`
    plan_pc,         \* Plan::for_nodes: "pass" (inside the for loop), "ok", "err"; "off" elsewhere
    outputs,         \* ModelState.outputs: id -> Option<Vec<TensorView>>
    exec_pc,         \* the executor's position: "idle", "running" (inside Plan::run); "off" elsewhere
    todo,            \* Plan::run: what is left of `self.order` in the running call
    call,            \* the ModelState call in progress or last returned, with its result
    solver_pc,       \* Solver::infer: "loop", "returned", "panicked"; "off" elsewhere
    context,         \* Solver::infer: `context` ([inputs, outputs] of TensorFacts)
    rules,           \* Solver::infer: `rules`, a sequence of [used, rule]
    cursor,          \* Solver::infer: index of the next rule of the pass in progress
    changed,         \* Solver::infer: `changed`
    added_rules,     \* Solver::infer: `added_rules`
    facts,           \* Solver::infer: the `facts` argument
    graph,           \* Model::new: the `graph` argument, a sequence of node definitions
    nodes_by_name,   \* Model.nodes_by_name: name -> id
    new_pc,          \* Model::new: "for" (inside the loop), "returned", "panicked"; "off" elsewhere
    new_result,      \* Model::new: None, or the kind and error of its result
    lookup,          \* the last call of Model::node_id_by_name, with its result
    path_call,       \* the last call of get_path or set_path, with its result
    unify_call,      \* the last call of Fact::unify, with its arguments and its result
    eval_call,       \* the last call of Op::eval, with its arguments and its result
    buffer,          \* the buffer of a streamed operator: one queue per input
    stream           \* the calls of Op::step made on `buffer` so far

planVars == <<targets, order, done, needed, missing, done_something, plan_pc>>
execVars == <<outputs, exec_pc, todo, call>>
solverVars == <<solver_pc, context, rules, cursor, changed, added_rules, facts>>
modelVars == <<graph, nodes_by_name, new_pc, new_result, lookup>>
pathVars == <<path_call>>
latticeVars == <<unify_call>>
opVars == <<eval_call, buffer, stream>>
vars == <<nodes, planVars, execVars, solverVars, modelVars, pathVars, latticeVars, opVars>>

----------------------------------------------------------------------------
(* Bounds of the model.                                                    *)

PlanNodes == 3       \* nodes of the graphs the planner is run on
ExecNodes == 2       \* nodes of the graphs the executor is run on
MaxEdges == 2        \* inputs of all the nodes of such a graph, together
ChainNodes == 3      \* nodes of the chain the executor is run on as well
MaxFacts == 1        \* TensorFacts in each of the two vectors given to infer
MaxRules == 2        \* rules of the solver when infer is called
MaxTargets == 1      \* length of the `targets` slice given to Plan::for_model
MaxDefs == 2         \* node definitions of the graph given to Model::new
MaxInputs == 1       \* input strings of all these node definitions, together
MaxDims == 2         \* dims of the ShapeFacts that are unified
MaxSets == 2         \* set calls made in a row on one Context
MaxPad == 2          \* the largest entry of the paddings given to Pad
MaxPack == 3         \* the most inputs given to Pack
MaxSteps == 4        \* calls of step made on one buffer

----------------------------------------------------------------------------
(* Helpers.                                                                *)

None == <<>>
Some(v) == <<v>>
IsNone(o) == o = <<>>
IsSome(o) == o # <<>>
Unwrap(o) == o[1]

Min(S) == CHOOSE x \in S : \A y \in S : x <= y

\* BitSet::iter yields the members in ascending order.
RECURSIVE BitSetIter(_)
BitSetIter(S) ==
    IF S = {} THEN <<>> ELSE <<Min(S)>> \o BitSetIter(S \ {Min(S)})

Range(s) == {s[k] : k \in 1..Len(s)}

\* The sequences over S of length at most n.
SeqsUpTo(S, n) == UNION {[1..k -> S] : k \in 0..n}

\* An input of a node: (producer id, Option<output index>).
Input(p, o) == [node |-> p, output |-> o]

----------------------------------------------------------------------------
(* Plan::for_nodes (src/src/lib.rs:135-173).                               *)

\* ScanInputs with a bug: control-only inputs are left out of the ordering.
RECURSIVE ScanInputsTensorOnly(_, _, _)
ScanInputsTensorOnly(inputs, dn, st) ==
    IF inputs = <<>> THEN st
    ELSE LET i == Head(inputs)
         IN ScanInputsTensorOnly(Tail(inputs), dn,
                IF i.node \notin dn /\ IsSome(i.output)
                THEN [computable |-> FALSE, done_something |-> TRUE,
                      needed |-> st.needed \cup {i.node}]
                ELSE st)

\* The inner loop `for i in node.inputs.iter()`: an input whose producer is
\* not done makes the node not computable, sets done_something and inserts
\* the producer into needed.  st = [computable, done_something, needed].
RECURSIVE ScanInputs(_, _, _)
ScanInputs(inputs, dn, st) ==
    IF inputs = <<>> THEN st
    ELSE LET i == Head(inputs)
         IN ScanInputs(Tail(inputs), dn,
                IF i.node \notin dn
                THEN [computable |-> FALSE, done_something |-> TRUE,
                      needed |-> st.needed \cup {i.node}]
                ELSE st)

\* VisitNode with a bug: the node is pushed whether it is computable or not.
VisitNodeEager(ns, st, node_id) ==
    LET sc == ScanInputs(ns[node_id].inputs, st.done,
                  [computable |-> TRUE, done_something |-> st.done_something,
                   needed |-> st.needed])
    IN [order |-> Append(st.order, node_id),
        done |-> st.done \cup {node_id},
        needed |-> sc.needed,
        done_something |-> TRUE]

\* The body of `for node_id in missing.iter()` for one node.
\* st = [order, done, needed, done_something].
VisitNode(ns, st, node_id) ==
    LET sc == ScanInputs(ns[node_id].inputs, st.done,
                  [computable |-> TRUE, done_something |-> st.done_something,
                   needed |-> st.needed])
    IN IF sc.computable
       THEN [order |-> Append(st.order, node_id),
             done |-> st.done \cup {node_id},
             needed |-> sc.needed,
             done_something |-> TRUE]
       ELSE [order |-> st.order, done |-> st.done,
             needed |-> sc.needed, done_something |-> sc.done_something]

\* PlanStart with a bug: every node up to a target is needed.
PlanStartUpToTargets(tg) ==
    [order |-> <<>>, done |-> {}, needed |-> UNION {0..tg[k] : k \in 1..Len(tg)},
     done_something |-> FALSE]

\* The state before the first pass: order and done empty, needed = targets.
PlanStart(tg) ==
    [order |-> <<>>, done |-> {}, needed |-> Range(tg), done_something |-> FALSE]

\* `missing = needed.clone(); missing.difference_with(&done)`, as iterated.
MissingOf(st) == BitSetIter(st.needed \ st.done)

\* The checks after the loop: the first target that is not done is an error.
PlanResult(ns, tg, st) ==
    IF \E k \in 1..Len(tg) : tg[k] \notin st.done
    THEN [kind |-> "err", error |-> "Could not plan for node", order |-> <<>>]
    ELSE [kind |-> "ok", error |-> "", order |-> st.order]

----------------------------------------------------------------------------
(* The planner as a process: one step per iteration of the for loop.       *)

\* The graphs the planner is run on.  Model.nodes is a public field, so a
\* Model may hold any producer ids, cycles included.  The planner reads only
\* the producer of an input (i.0), so each node lists a set of producers in
\* ascending order; as in a GraphDef, where control inputs follow the
\* regular ones, the last of two or more inputs is control-only.
PlanIds == 0..(PlanNodes - 1)

PlanInputs(S) ==
    LET s == BitSetIter(S)
    IN [k \in 1..Len(s) |->
          Input(s[k], IF Len(s) >= 2 /\ k = Len(s) THEN None ELSE Some(0))]

PlanGraphs ==
    {[id \in PlanIds |-> [id |-> id, inputs |-> PlanInputs(ps[id]), op |-> "Map"]] :
        ps \in [PlanIds -> SUBSET PlanIds]}

\* The `targets` slices: one to MaxTargets distinct ids (a repeated target is
\* inserted into `needed` once more, which changes nothing), in ascending order.
PlanTargets ==
    {BitSetIter(T) : T \in {T \in SUBSET PlanIds : Cardinality(T) \in 1..MaxTargets}}

PlanState == [order |-> order, done |-> done, needed |-> needed,
              done_something |-> done_something]

ExecOff == outputs = <<>> /\ exec_pc = "off" /\ todo = <<>> /\ call = <<>>
SolverOff == solver_pc = "off" /\ context = <<>> /\ rules = <<>>
             /\ cursor = 0 /\ changed = FALSE /\ added_rules = <<>>
             /\ facts = <<>>
ModelOff == graph = <<>> /\ nodes_by_name = <<>> /\ new_pc = "off"
            /\ new_result = <<>> /\ lookup = <<>>
StreamOff == buffer = <<>> /\ stream = <<>>
PathOff == path_call = <<>> /\ unify_call = <<>> /\ eval_call = <<>> /\ StreamOff

InitPlan ==
    /\ nodes \in PlanGraphs
    /\ targets \in PlanTargets
    /\ order = <<>> /\ done = {} /\ needed = Range(targets)
    /\ done_something = FALSE
    /\ missing = MissingOf(PlanStart(targets))
    /\ plan_pc = "pass"
    /\ ExecOff /\ SolverOff /\ ModelOff /\ PathOff

\* One iteration of `for node_id in missing.iter()`.
PlanVisit ==
    /\ plan_pc = "pass" /\ missing # <<>>
    /\ LET st == VisitNode(nodes, PlanState, Head(missing))
       IN /\ order' = st.order /\ done' = st.done /\ needed' = st.needed
          /\ done_something' = st.done_something
    /\ missing' = Tail(missing)
    /\ UNCHANGED <<nodes, targets, plan_pc, execVars, solverVars, modelVars, pathVars, latticeVars, opVars>>

\* The end of a pass: `if !done_something { break }`, then either the next
\* pass begins or the checks after the loop give the result.
PlanPassEnd ==
    /\ plan_pc = "pass" /\ missing = <<>>
    /\ IF done_something
       THEN /\ done_something' = FALSE
            /\ missing' = MissingOf(PlanState)
            /\ plan_pc' = "pass"
       ELSE /\ plan_pc' = PlanResult(nodes, targets, PlanState).kind
            /\ UNCHANGED <<done_something, missing>>
    /\ UNCHANGED <<nodes, targets, order, done, needed, execVars, solverVars, modelVars, pathVars, latticeVars, opVars>>

NextPlan == PlanVisit \/ PlanPassEnd

SpecPlan == InitPlan /\ [][NextPlan]_vars

\* The loop is sequential code: it takes its next step whenever it has one.
SpecPlanFair == SpecPlan /\ WF_vars(NextPlan)

----------------------------------------------------------------------------
(* Plan::for_nodes as a function, for the callers that run it to its end   *)
(* (it ends on every graph whose producers precede their consumers).       *)

RECURSIVE PlanPass(_, _, _)
PlanPass(ns, st, miss) ==
    IF miss = <<>> THEN st
    ELSE PlanPass(ns, VisitNode(ns, st, Head(miss)), Tail(miss))

RECURSIVE PlanLoop(_, _)
PlanLoop(ns, st) ==
    LET after == PlanPass(ns, [st EXCEPT !.done_something = FALSE], MissingOf(st))
    IN IF after.done_something THEN PlanLoop(ns, after) ELSE after

\* ForModel with a bug: the nodes without inputs are taken to hold a value
\* and are left out of the plan.
ForModelWithoutInputNodes(ns, tg) ==
    LET r == PlanResult(ns, tg, PlanLoop(ns, PlanStart(tg)))
    IN [r EXCEPT !.order = SelectSeq(r.order, LAMBDA n : ns[n].inputs # <<>>)]

\* Plan::for_model(model, targets)
ForModel(ns, tg) == PlanResult(ns, tg, PlanLoop(ns, PlanStart(tg)))

----------------------------------------------------------------------------
(* Tensors and operators.  A tensor is the term that produced it: a value  *)
(* given by the caller, or the result of an operator on its inputs.        *)

Given(n) == [f |-> "given", n |-> n, args |-> <<>>]
Apply(f, args) == [f |-> f, n |-> 0, args |-> args]

Ok(v) == [kind |-> "ok", error |-> "", value |-> v]
Err(e) == [kind |-> "err", error |-> e, value |-> <<>>]
Panic(e) == [kind |-> "panic", error |-> e, value |-> <<>>]

\* args_1!: exactly one input, or the error "Expected 1 arg".
Args1(inputs) == IF Len(inputs) # 1 THEN Err("Expected 1 arg") ELSE Ok(inputs[1])

\* Args2 with a bug: the inputs after the second one are ignored.
Args2AtLeast(inputs) ==
    IF Len(inputs) < 2 THEN Err("Expected 2 args") ELSE Ok(<<inputs[1], inputs[2]>>)

\* args_2!: exactly two inputs, in order, or the error "Expected 2 args".
Args2(inputs) ==
    IF Len(inputs) # 2 THEN Err("Expected 2 args") ELSE Ok(<<inputs[1], inputs[2]>>)

\* Op::eval of the element-wise maps ("Map") and of the binary element-wise
\* operators ("Bin"): one output tensor, or the arity error.
Eval(op, inputs) ==
    IF op = "Map"
    THEN IF Args1(inputs).kind # "ok" THEN Args1(inputs)
         ELSE Ok(<<Apply("map", <<Args1(inputs).value>>)>>)
    ELSE IF Args2(inputs).kind # "ok" THEN Args2(inputs)
         ELSE Ok(<<Apply("bin", Args2(inputs).value)>>)

----------------------------------------------------------------------------
(* ModelState (src/src/lib.rs:338-407).                                    *)

\* Reset with a bug: the slots are left as they are.
ResetKeepsSlots(ns) == outputs

\* ModelState::reset: every slot None.
Reset(ns) == [id \in DOMAIN ns |-> None]

\* ModelState::set_outputs
SetOutputs(outs, id, values) == [outs EXCEPT ![id] = Some(values)]

\* ModelState::set_value
SetValue(outs, id, value) == SetOutputs(outs, id, <<value>>)

\* The loop of compute_one that gathers the inputs of a node, from input k
\* on: a producer whose slot is None is the error "precursor not done", an
\* input without output index is the error "no output found", and
\* prec[index] panics when the index is not below the length of prec.
RECURSIVE Gather(_, _, _, _)
Gather(outs, inputs, k, acc) ==
    IF k > Len(inputs) THEN Ok(acc)
    ELSE LET i == inputs[k]
             prec == outs[i.node]
         IN IF IsNone(prec) THEN Err("precursor not done")
            ELSE IF IsNone(i.output) THEN Err("no output found")
            ELSE IF Unwrap(i.output) >= Len(Unwrap(prec))
                 THEN Panic("index out of bounds")
            ELSE Gather(outs, inputs, k + 1,
                        Append(acc, Unwrap(prec)[Unwrap(i.output) + 1]))

\* ModelState::compute_one: [outputs, result, evals], where evals lists the
\* calls of Op::eval made (the node and the inputs it was given).
ComputeOne(ns, outs, n) ==
    LET g == Gather(outs, ns[n].inputs, 1, <<>>)
    IN IF g.kind # "ok"
       THEN [outputs |-> outs, result |-> g, evals |-> <<>>]
       ELSE LET r == Eval(ns[n].op, g.value)
                ev == <<[node |-> n, inputs |-> g.value]>>
            IN IF r.kind # "ok"
               THEN [outputs |-> outs, result |-> r, evals |-> ev]
               ELSE [outputs |-> [outs EXCEPT ![ns[n].id] = Some(r.value)],
                     result |-> Ok(<<>>), evals |-> ev]

\* Take with a bug: the outputs are returned and stay in the slot.
TakeKeepsSlot(outs, id) ==
    IF IsNone(outs[id])
    THEN [outputs |-> outs, result |-> Err("Value is not computed")]
    ELSE [outputs |-> outs, result |-> Ok(Unwrap(outs[id]))]

\* ModelState::take
Take(outs, id) ==
    IF IsNone(outs[id])
    THEN [outputs |-> outs, result |-> Err("Value is not computed")]
    ELSE [outputs |-> [outs EXCEPT ![id] = None], result |-> Ok(Unwrap(outs[id]))]

\* The first lines of ModelState::run: reset, then set_value for each input.
RECURSIVE SetInputs(_, _)
SetInputs(outs, inputs) ==
    IF inputs = <<>> THEN outs
    ELSE SetInputs(SetValue(outs, Head(inputs)[1], Head(inputs)[2]), Tail(inputs))

\* PlanRunStep with a bug: the node is computed whatever its slot holds.
PlanRunStepAlways(ns, outs, n) == ComputeOne(ns, outs, n)

\* The body of the loop of Plan::run for node n: compute_one when the slot
\* of n is None, nothing otherwise.
PlanRunStep(ns, outs, n) ==
    IF IsSome(outs[n])
    THEN [outputs |-> outs, result |-> Ok(<<>>), evals |-> <<>>]
    ELSE ComputeOne(ns, outs, n)

\* Plan::run over what is left of the order: the first failure is returned.
RECURSIVE PlanRun(_, _, _)
PlanRun(ns, outs, ord) ==
    IF ord = <<>> THEN [outputs |-> outs, result |-> Ok(<<>>)]
    ELSE LET c == PlanRunStep(ns, outs, Head(ord))
         IN IF c.result.kind # "ok"
            THEN [outputs |-> c.outputs, result |-> c.result]
            ELSE PlanRun(ns, c.outputs, Tail(ord))

\* Model::state: every slot None.
State(ns) == [id \in DOMAIN ns |-> None]

\* Model::run: ModelState::run on a new state (self.state().run(..)), where
\* the reset changes nothing.  The result of the call.
ModelRun(ns, inputs, target) ==
    LET p == ForModel(ns, <<target>>)
        r == PlanRun(ns, SetInputs(State(ns), inputs), p.order)
    IN IF p.kind # "ok" THEN Err(p.error)
       ELSE IF r.result.kind # "ok" THEN r.result
       ELSE Take(r.outputs, target).result

----------------------------------------------------------------------------
(* The executor as a process.  A call of ModelState::run is a sequence of  *)
(* steps: its first lines up to the plan, one step for each node of the    *)
(* plan (the loop of Plan::run), and the final take.  The other calls are  *)
(* one step each.  A panic ends the process.                               *)

ExecIds == DOMAIN nodes

\* The operator of a node: a binary element-wise operator when the node has
\* two tensor inputs, an element-wise map otherwise.
OpFor(inputs) ==
    IF Cardinality({k \in 1..Len(inputs) : IsSome(inputs[k].output)}) = 2
    THEN "Bin" ELSE "Map"

\* What an input of node id may be: any earlier node (Model::new resolves
\* names against the nodes built so far), as a control input or with output
\* index 0 or 1.
Refs(id) == {Input(p, o) : p \in 0..(id - 1), o \in {None, Some(0), Some(1)}}

\* The input lists of the nodes id .. ExecNodes-1, with at most `budget`
\* inputs together, as a set of sequences (one list per node).
RECURSIVE InputLists(_, _)
InputLists(id, budget) ==
    IF id = ExecNodes THEN {<<>>}
    ELSE UNION {{<<l>> \o rest : rest \in InputLists(id + 1, budget - Len(l))} :
                    l \in SeqsUpTo(Refs(id), budget)}

ExecGraphs ==
    {[id \in 0..(ExecNodes - 1) |->
         [id |-> id, inputs |-> ls[id + 1], op |-> OpFor(ls[id + 1])]] :
        ls \in InputLists(0, MaxEdges)}

\* The chain: node 0 has no input, each other node has the first output of
\* the node before it as its input.
ChainGraph ==
    [id \in 0..(ChainNodes - 1) |->
        [id |-> id,
         inputs |-> IF id = 0 THEN <<>> ELSE <<Input(id - 1, Some(0))>>,
         op |-> "Map"]]

\* The `inputs` argument of run: a value for each node of a set of nodes,
\* the value given for node n being the tensor Given(n).
RunInputs == {[k \in 1..Len(BitSetIter(P)) |->
                  <<BitSetIter(P)[k], Given(BitSetIter(P)[k])>>] : P \in SUBSET ExecIds}

Provided(inputs) == {inputs[k][1] : k \in 1..Len(inputs)}

PlanOff ==
    /\ targets = <<>> /\ order = <<>> /\ done = {} /\ needed = {}
    /\ missing = <<>> /\ done_something = FALSE /\ plan_pc = "off"

\* Model::state
InitExec ==
    /\ nodes \in ExecGraphs \cup {ChainGraph}
    /\ outputs = State(nodes)
    /\ exec_pc = "idle"
    /\ todo = <<>>
    /\ call = [name |-> "state", inputs |-> <<>>, target |-> 0, plan |-> <<>>,
               at |-> None, reused |-> FALSE, evals |-> <<>>, result |-> None]
    /\ PlanOff /\ SolverOff /\ ModelOff /\ PathOff

\* The record of a call: its name and arguments; for run the plan it built,
\* the node Plan::run is at and whether some slot held a value when it was
\* called; the calls of Op::eval it made; its result.
Returned(name, inputs, target, plan, evals, result) ==
    [name |-> name, inputs |-> inputs, target |-> target, plan |-> plan,
     at |-> None, reused |-> \E id \in DOMAIN outputs : IsSome(outputs[id]),
     evals |-> evals, result |-> Some(result)]

AfterCall(result) == IF result.kind = "panic" THEN "panicked" ELSE "idle"

\* ModelState::run, up to the call of Plan::run: reset, set the inputs,
\* build the plan; `?` returns the planner's error.
RunBegin(inputs, target) ==
    /\ exec_pc = "idle"
    /\ LET p == ForModel(nodes, <<target>>)
       IN /\ outputs' = SetInputs(Reset(nodes), inputs)
          /\ IF p.kind = "ok"
             THEN /\ exec_pc' = "running"
                  /\ todo' = p.order
                  /\ call' = [name |-> "run", inputs |-> inputs, target |-> target,
                              plan |-> p.order, at |-> None,
                              reused |-> \E id \in ExecIds : IsSome(outputs[id]),
                              evals |-> <<>>, result |-> None]
             ELSE /\ exec_pc' = "idle"
                  /\ todo' = <<>>
                  /\ call' = Returned("run", inputs, target, <<>>, <<>>, Err(p.error))
    /\ UNCHANGED <<nodes, planVars, solverVars, modelVars, pathVars, latticeVars, opVars>>

\* One iteration of the loop of Plan::run: compute_one for a node whose
\* slot is None; `?` returns its error from run.
RunStep ==
    /\ exec_pc = "running" /\ todo # <<>>
    /\ LET c == PlanRunStep(nodes, outputs, Head(todo))
       IN /\ outputs' = c.outputs
          /\ IF c.result.kind = "ok"
             THEN /\ todo' = Tail(todo)
                  /\ exec_pc' = "running"
                  /\ call' = [call EXCEPT !.at = Some(Head(todo)),
                                          !.evals = @ \o c.evals]
             ELSE /\ todo' = <<>>
                  /\ exec_pc' = AfterCall(c.result)
                  /\ call' = [call EXCEPT !.at = Some(Head(todo)),
                                          !.evals = @ \o c.evals,
                                          !.result = Some(c.result)]
    /\ UNCHANGED <<nodes, planVars, solverVars, modelVars, pathVars, latticeVars, opVars>>

\* The last line of ModelState::run: take(output).
RunEnd ==
    /\ exec_pc = "running" /\ todo = <<>>
    /\ LET t == Take(outputs, call.target)
       IN /\ outputs' = t.outputs
          /\ call' = [call EXCEPT !.result = Some(t.result)]
    /\ exec_pc' = "idle"
    /\ UNCHANGED <<nodes, todo, planVars, solverVars, modelVars, pathVars, latticeVars, opVars>>

\* ModelState::set_value, called by the user of the state.
CallSetValue(id) ==
    /\ exec_pc = "idle"
    /\ outputs' = SetValue(outputs, id, Given(id))
    /\ call' = Returned("set_value", <<>>, id, <<>>, <<>>, Ok(<<>>))
    /\ UNCHANGED <<nodes, exec_pc, todo, planVars, solverVars, modelVars, pathVars, latticeVars, opVars>>

\* ModelState::take, called by the user of the state.
CallTake(id) ==
    /\ exec_pc = "idle"
    /\ LET t == Take(outputs, id)
       IN /\ outputs' = t.outputs
          /\ call' = Returned("take", <<>>, id, <<>>, <<>>, t.result)
    /\ UNCHANGED <<nodes, exec_pc, todo, planVars, solverVars, modelVars, pathVars, latticeVars, opVars>>

\* ModelState::compute_one, called by the user of the state.
CallComputeOne(id) ==
    /\ exec_pc = "idle"
    /\ LET c == ComputeOne(nodes, outputs, id)
       IN /\ outputs' = c.outputs
          /\ call' = Returned("compute_one", <<>>, id, <<>>, c.evals, c.result)
          /\ exec_pc' = AfterCall(c.result)
    /\ UNCHANGED <<nodes, todo, planVars, solverVars, modelVars, pathVars, latticeVars, opVars>>

NextExec ==
    \/ \E inputs \in RunInputs, target \in ExecIds : RunBegin(inputs, target)
    \/ RunStep
    \/ RunEnd
    \/ \E id \in ExecIds : CallSetValue(id)
    \/ \E id \in ExecIds : CallTake(id)
    \/ \E id \in ExecIds : CallComputeOne(id)

SpecExec == InitExec /\ [][NextExec]_vars

----------------------------------------------------------------------------
(* Model::new (src/src/lib.rs:195-253).  A string is a sequence of         *)
(* characters; a HashMap is a function on the set of its keys.             *)

\* str::starts_with and str::replace(c, "") for a character c.
StartsWith(s, c) == Len(s) > 0 /\ s[1] = c
Replace(s, c) == SelectSeq(s, LAMBDA x : x # c)

\* str::splitn(2, c), collected: the string, or what is before and what is
\* after the first c.
Splitn2(s, c) ==
    IF \A k \in 1..Len(s) : s[k] # c THEN <<s>>
    ELSE LET k == Min({j \in 1..Len(s) : s[j] = c})
         IN <<SubSeq(s, 1, k - 1), SubSeq(s, k + 1, Len(s))>>

Digits == <<"0", "1", "2", "3", "4", "5", "6", "7", "8", "9">>
DigitValue(c) == (CHOOSE k \in 1..Len(Digits) : Digits[k] = c) - 1

RECURSIVE ParseDigits(_, _)
ParseDigits(s, acc) ==
    IF s = <<>> THEN Ok(acc)
    ELSE IF Head(s) \notin Range(Digits) THEN Err("invalid digit found in string")
    ELSE ParseDigits(Tail(s), acc * Len(Digits) + DigitValue(Head(s)))

\* str::parse::<usize>: decimal digits after an optional "+".
ParseUsize(s) ==
    IF s = <<>> THEN Err("cannot parse integer from empty string")
    ELSE LET d == IF StartsWith(s, "+") THEN Tail(s) ELSE s
         IN IF d = <<>> THEN Err("invalid digit found in string")
            ELSE ParseDigits(d, 0)

HashMapGet(m, k) == IF k \in DOMAIN m THEN Some(m[k]) ELSE None
HashMapInsert(m, k, v) == [x \in DOMAIN m \cup {k} |-> IF x = k THEN v ELSE m[x]]

\* ParseInput with a bug: a name that is not found is taken for node 0.
ParseInputLenient(by_name, i) ==
    IF StartsWith(i, "^")
    THEN LET id == HashMapGet(by_name, Replace(i, "^"))
         IN Ok(Input(IF IsNone(id) THEN 0 ELSE Unwrap(id), None))
    ELSE LET splits == Splitn2(i, ":")
             id == HashMapGet(by_name, splits[1])
             n == IF Len(splits) > 1 THEN ParseUsize(splits[2]) ELSE Ok(0)
         IN IF n.kind # "ok" THEN n
            ELSE Ok(Input(IF IsNone(id) THEN 0 ELSE Unwrap(id), Some(n.value)))

\* The closure mapped over pbnode.get_input(): "^node" is a control input,
\* "node:src_output" and "node" are tensor inputs, of a node built before.
ParseInput(by_name, i) ==
    IF StartsWith(i, "^")
    THEN LET id == HashMapGet(by_name, Replace(i, "^"))
         IN IF IsNone(id) THEN Err("No node found")
            ELSE Ok(Input(Unwrap(id), None))
    ELSE LET splits == Splitn2(i, ":")
             id == HashMapGet(by_name, splits[1])
             n == IF Len(splits) > 1 THEN ParseUsize(splits[2]) ELSE Ok(0)
         IN IF IsNone(id) THEN Err("No node found")
            ELSE IF n.kind # "ok" THEN n
            ELSE Ok(Input(Unwrap(id), Some(n.value)))

\* .collect::<Result<Vec<_>>>(): the inputs, or the first error.
RECURSIVE CollectInputs(_, _, _)
CollectInputs(by_name, input, acc) ==
    IF input = <<>> THEN Ok(acc)
    ELSE LET r == ParseInput(by_name, Head(input))
         IN IF r.kind # "ok" THEN r
            ELSE CollectInputs(by_name, Tail(input), Append(acc, r.value))

\* The builder of an element-wise map (element_map_float!): the attribute T
\* is to be there and to be a float type.
BuildOp(pb) ==
    IF IsNone(pb.T) THEN Err("attribute T not found")
    ELSE IF Unwrap(pb.T) \in {"F32", "F64"} THEN Ok("Map")
    ELSE Panic("missing type")

\* Vec::push on nodes, a function on 0 .. len-1.
Push(ns, node) ==
    [id \in 0..Cardinality(DOMAIN ns) |-> IF id \in DOMAIN ns THEN ns[id] ELSE node]

\* Model::node_id_by_name
NodeIdByName(by_name, name) ==
    IF IsNone(HashMapGet(by_name, name)) THEN Err("Node named not found")
    ELSE Ok(Unwrap(HashMapGet(by_name, name)))

----------------------------------------------------------------------------
(* Model::new as a process: one step for each node definition of the       *)
(* graph, one for the return; node_id_by_name is called on a Model that    *)
(* was returned.                                                           *)

Names == {<<"a">>, <<"b">>}

\* The input strings of the node definitions: plain, control and indexed
\* references to "a" and "b", and strings that are none of these.
InputStrings ==
    {<<"a">>, <<"b">>, <<"^", "a">>, <<"^", "b">>,
     <<"a", ":", "0">>, <<"a", ":", "1">>, <<"b", ":", "1", "0">>,
     <<"a", ":", "+", "1">>, <<"a", ":">>, <<"a", ":", "b">>,
     <<"a", ":", "1", ":", "0">>, <<"^", "a", ":", "1">>, <<"^", "^", "a">>,
     <<"a", "^">>, <<>>}

\* The attribute T of a node definition: a float type, none, another type.
AttrT == {Some("F32"), None, Some("I32")}

\* The lists of input strings of n node definitions, with at most `budget`
\* input strings together.
RECURSIVE GraphInputs(_, _)
GraphInputs(n, budget) ==
    IF n = 0 THEN {<<>>}
    ELSE UNION {{<<l>> \o rest : rest \in GraphInputs(n - 1, budget - Len(l))} :
                    l \in SeqsUpTo(InputStrings, budget)}

InitNew ==
    /\ \E n \in 0..MaxDefs :
          \E nm \in [1..n -> Names], t \in [1..n -> AttrT],
             ins \in GraphInputs(n, MaxInputs) :
              graph = [j \in 1..n |-> [name |-> nm[j], input |-> ins[j], T |-> t[j]]]
    /\ nodes = <<>>
    /\ nodes_by_name = <<>>
    /\ new_pc = "for"
    /\ new_result = None
    /\ lookup = None
    /\ PlanOff /\ ExecOff /\ SolverOff /\ PathOff

\* One iteration of `for pbnode in graph.get_node().iter()`: the inputs are
\* resolved against the nodes built so far, the operator is built, the node
\* is pushed and its name inserted; `?` returns the first error.
NewNode ==
    /\ new_pc = "for" /\ Cardinality(DOMAIN nodes) < Len(graph)
    /\ LET pbnode == graph[Cardinality(DOMAIN nodes) + 1]
           inputs == CollectInputs(nodes_by_name, pbnode.input, <<>>)
           op == BuildOp(pbnode)
       IN IF inputs.kind # "ok"
          THEN /\ new_pc' = "returned" /\ new_result' = Some(inputs)
               /\ UNCHANGED <<nodes, nodes_by_name>>
          ELSE IF op.kind # "ok"
          THEN /\ new_pc' = IF op.kind = "panic" THEN "panicked" ELSE "returned"
               /\ new_result' = Some(op)
               /\ UNCHANGED <<nodes, nodes_by_name>>
          ELSE /\ nodes' = Push(nodes, [id |-> Cardinality(DOMAIN nodes),
                                        name |-> pbnode.name,
                                        inputs |-> inputs.value,
                                        op |-> op.value])
               /\ nodes_by_name' = HashMapInsert(nodes_by_name, pbnode.name,
                                                 Cardinality(DOMAIN nodes))
               /\ UNCHANGED <<new_pc, new_result>>
    /\ UNCHANGED <<graph, lookup, planVars, execVars, solverVars, pathVars, latticeVars, opVars>>

\* `Ok(Model { nodes, nodes_by_name })` after the loop.
NewReturn ==
    /\ new_pc = "for" /\ Cardinality(DOMAIN nodes) = Len(graph)
    /\ new_pc' = "returned"
    /\ new_result' = Some(Ok(<<>>))
    /\ UNCHANGED <<nodes, graph, nodes_by_name, lookup,
                   planVars, execVars, solverVars, pathVars, latticeVars, opVars>>

\* Model::node_id_by_name, called by the user of a Model that was returned.
CallNodeIdByName(name) ==
    /\ new_pc = "returned" /\ Unwrap(new_result).kind = "ok"
    /\ lookup' = Some([name |-> name, result |-> NodeIdByName(nodes_by_name, name)])
    /\ UNCHANGED <<nodes, graph, nodes_by_name, new_pc, new_result,
                   planVars, execVars, solverVars, pathVars, latticeVars, opVars>>

NextNew ==
    \/ NewNode
    \/ NewReturn
    \/ \E name \in Names : CallNodeIdByName(name)

SpecNew == InitNew /\ [][NextNew]_vars

----------------------------------------------------------------------------
(* Facts, paths, expressions and rules of the solver                       *)
(* (src/src/analyser/interface).                                           *)

\* TensorFact { datatype, shape, value }: a TypeFact and a ValueFact are an
\* Option (None is Any), a ShapeFact is an open flag and a sequence of
\* DimFacts, each an Option.  TensorFact::new() knows nothing.
TensorFact(datatype, open, dims, value) ==
    [datatype |-> datatype, shape |-> [open |-> open, dims |-> dims], value |-> value]

TensorFactNew == TensorFact(None, TRUE, <<>>, None)

\* The facts infer is called with, and the output facts of a Context whose
\* paths are read and written.
Facts ==
    {TensorFactNew,
     TensorFact(Some("DT_INT32"), TRUE, <<>>, None),
     TensorFact(None, FALSE, <<None, Some(2), None>>, None)}

\* Context::new(inputs, outputs)
ContextNew(fs) == [inputs |-> fs[1], outputs |-> fs[2]]

\* Expressions: ConstantExpression(Wrapped), VariableExpression(Path) and
\* ProductExpression(isize, E).
Wrapped(kind, fact) == [kind |-> kind, fact |-> fact]
ConstantExpression(w) == [expr |-> "Constant", k |-> 0, value |-> w, path |-> <<>>]
VariableExpression(path) ==
    [expr |-> "Variable", k |-> 0, value |-> Wrapped("Int", None), path |-> path]
ProductExpression(k, path) ==
    [expr |-> "Product", k |-> k, value |-> Wrapped("Int", None), path |-> path]

\* Rules: EqualsRule { items }, EqualsZeroRule { items } and
\* GivenRule { item, closure }; the closure is named by what it adds.
EqualsRule(items) == [rule |-> "Equals", items |-> items, closure |-> <<>>]
EqualsZeroRule(items) == [rule |-> "EqualsZero", items |-> items, closure |-> <<>>]
GivenRule(item, closure) == [rule |-> "Given", items |-> <<item>>, closure |-> closure]

\* Rule::apply(&self, context), for the three rules: each body is
\* unimplemented!(), which panics ("not yet implemented") whatever the
\* context holds.  The result: [kind, used, added, context].
EqualsRuleApply(r, ctx) ==
    [kind |-> "panic", used |-> FALSE, added |-> <<>>, context |-> ctx]

EqualsZeroRuleApply(r, ctx) ==
    [kind |-> "panic", used |-> FALSE, added |-> <<>>, context |-> ctx]

GivenRuleApply(r, ctx) ==
    [kind |-> "panic", used |-> FALSE, added |-> <<>>, context |-> ctx]

\* rule.apply(&mut context): the dynamic dispatch on the rule.
RuleApply(r, ctx) ==
    IF r.rule = "Equals" THEN EqualsRuleApply(r, ctx)
    ELSE IF r.rule = "EqualsZero" THEN EqualsZeroRuleApply(r, ctx)
    ELSE GivenRuleApply(r, ctx)

----------------------------------------------------------------------------
(* The facts of the analyser.  A TypeFact, IntFact, DimFact or ValueFact   *)
(* is an Option: None is Any, Some(v) is Only(v).  A tensor is             *)
(* [datatype, shape, data], of rank 0 or 1.                                *)

Max(a, b) == IF a >= b THEN a ELSE b

\* Fact::unify of two TypeFacts, IntFacts, DimFacts or ValueFacts.
Unify(x, y) ==
    IF IsNone(x) THEN Ok(y)
    ELSE IF IsNone(y) \/ x = y THEN Ok(x)
    ELSE Err("Impossible to unify")

ShapeFact(open, dims) == [open |-> open, dims |-> dims]
Anys(k) == [j \in 1..k |-> None]

\* ShapeUnify with a bug: the result is open if one of the sides is.
ShapeUnifyEitherOpen(x, y) ==
    LET n == Max(Len(x.dims), Len(y.dims))
        dim(k) == IF k <= Len(x.dims) /\ k <= Len(y.dims)
                  THEN Unify(x.dims[k], y.dims[k])
                  ELSE IF k <= Len(x.dims)
                  THEN IF y.open THEN Ok(x.dims[k])
                       ELSE Err("Impossible to unify closed shapes of different rank")
                  ELSE IF x.open THEN Ok(y.dims[k])
                       ELSE Err("Impossible to unify closed shapes of different rank")
    IN IF \E k \in 1..n : dim(k).kind # "ok"
       THEN Err("Impossible to unify")
       ELSE Ok(ShapeFact(x.open \/ y.open, [k \in 1..n |-> dim(k).value]))

\* Fact::unify of two ShapeFacts: the dims are unified position by
\* position, the dims one side has more are kept if the other side is
\* open, and the result is open if both sides are.
ShapeUnify(x, y) ==
    LET n == Max(Len(x.dims), Len(y.dims))
        dim(k) == IF k <= Len(x.dims) /\ k <= Len(y.dims)
                  THEN Unify(x.dims[k], y.dims[k])
                  ELSE IF k <= Len(x.dims)
                  THEN IF y.open THEN Ok(x.dims[k])
                       ELSE Err("Impossible to unify closed shapes of different rank")
                  ELSE IF x.open THEN Ok(y.dims[k])
                       ELSE Err("Impossible to unify closed shapes of different rank")
    IN IF \E k \in 1..n : dim(k).kind # "ok"
       THEN Err("Impossible to unify")
       ELSE Ok(ShapeFact(x.open /\ y.open, [k \in 1..n |-> dim(k).value]))

\* DataType::to_pb
ToPb(datatype) ==
    CASE datatype = "U8" -> "DT_UINT8"
      [] datatype = "I8" -> "DT_INT8"
      [] datatype = "I32" -> "DT_INT32"
      [] datatype = "F32" -> "DT_FLOAT"
      [] datatype = "F64" -> "DT_DOUBLE"
      [] OTHER -> "DT_STRING"

\* ShapeFact::from(tensor.shape()) and TypeFact::from(tensor.datatype())
ShapeFactFrom(tensor) == ShapeFact(FALSE, [k \in 1..Len(tensor.shape) |-> Some(tensor.shape[k])])
TypeFactFrom(tensor) == Some(ToPb(tensor.datatype))

\* Output::from_wrapped for the fact type `kind`: the fact, or a panic when
\* the Wrapped is of another variant.
FromWrapped(kind, wrapped) ==
    IF wrapped.kind = kind THEN Ok(wrapped.fact)
    ELSE Panic("Tried to get a fact from a Wrapped of another variant")

----------------------------------------------------------------------------
(* get_path (src/src/analyser/interface/path.rs).  A path is a sequence of *)
(* integers; the result of a get is Ok(Wrapped), an error or a panic.      *)
(* Indexing an empty slice (path[0], slice[0]) and to_usize().unwrap() of  *)
(* a negative number panic.                                                *)

\* get_shape_path
GetShapePath(shape, path) ==
    IF path = <<>> THEN Ok(Wrapped("Shape", shape))
    ELSE IF Len(path) = 1
    THEN IF path[1] < 0 THEN Panic("called Option::unwrap() on a None value")
         ELSE IF path[1] < Len(shape.dims)
         THEN Ok(Wrapped("Dim", shape.dims[path[1] + 1]))
         ELSE IF shape.open THEN Ok(Wrapped("Dim", None))
         ELSE Err("The closed shape has no such dimension")
    ELSE Err("The subpath for the shape should either be [] or [k]")

\* get_value_path
GetValuePath(value, path) ==
    IF path = <<-1>> \/ path = <<>> THEN Ok(Wrapped("Value", value))
    ELSE IF \E k \in 1..Len(path) : path[k] < 0
    THEN Panic("called Option::unwrap() on a None value")
    ELSE IF IsNone(value) THEN Ok(Wrapped("Int", None))
    ELSE LET tensor == Unwrap(value)
         IN IF tensor.datatype \notin {"I32", "I8", "U8"}
            THEN Err("the solver only supports integer values")
            ELSE IF /\ Len(path) = Len(tensor.shape)
                    /\ \A k \in 1..Len(path) : path[k] < tensor.shape[k]
                 THEN Ok(Wrapped("Int", Some(tensor.data[path[1] + 1])))
                 ELSE Err("There is no such index in the value")

\* get_tensorfact_path
GetTensorfactPath(fact, path) ==
    IF path = <<0>> THEN Ok(Wrapped("Type", fact.datatype))
    ELSE IF path = <<1>>
    THEN IF fact.shape.open THEN Ok(Wrapped("Int", None))
         ELSE Ok(Wrapped("Int", Some(Len(fact.shape.dims))))
    ELSE IF path = <<>> THEN Panic("index out of bounds")
    ELSE IF path[1] = 2 THEN GetShapePath(fact.shape, Tail(path))
    ELSE IF path[1] = 3 THEN GetValuePath(fact.value, Tail(path))
    ELSE Err("The subpath should start with 0, 1, 2 or 3")

\* get_tensorfacts_path
GetTensorfactsPath(fs, path) ==
    IF path = <<-1>> THEN Ok(Wrapped("Int", Some(Len(fs))))
    ELSE IF path = <<>> THEN Panic("index out of bounds")
    ELSE IF path[1] >= 0
    THEN IF path[1] < Len(fs) THEN GetTensorfactPath(fs[path[1] + 1], Tail(path))
         ELSE Err("There are not that many facts in the given set")
    ELSE Err("The first component of subpath should be -1 or a valid fact index")

\* get_path
GetPath(ctx, path) ==
    IF path = <<>> THEN Panic("index out of bounds")
    ELSE IF path[1] = 0 THEN GetTensorfactsPath(ctx.inputs, Tail(path))
    ELSE IF path[1] = 1 THEN GetTensorfactsPath(ctx.outputs, Tail(path))
    ELSE Err("The first component of path should be 0 or 1")

----------------------------------------------------------------------------
(* set_path (src/src/analyser/interface/path.rs).  The result of a set is  *)
(* [kind, error, out]: out is what the fact, the vector or the context     *)
(* holds when the call ends, also when it ends with an error.              *)

Set(kind, error, out) == [kind |-> kind, error |-> error, out |-> out]

\* SetRank with a bug: the shape is unified with an open shape.
SetRankOpen(fact, value) ==
    LET v == FromWrapped("Int", value)
    IN IF v.kind # "ok" THEN Set(v.kind, v.error, fact)
       ELSE IF IsNone(v.value) THEN Set("ok", "", fact)
       ELSE IF Unwrap(v.value) < 0 THEN Set("err", "Infered a negative rank", fact)
       ELSE LET u == ShapeUnify(fact.shape, ShapeFact(TRUE, Anys(Unwrap(v.value))))
            IN IF u.kind # "ok" THEN Set(u.kind, u.error, fact)
               ELSE Set("ok", "", [fact EXCEPT !.shape = u.value])

\* set_tensorfact_path, `[1]`: the rank of the TensorFact.
SetRank(fact, value) ==
    LET v == FromWrapped("Int", value)
    IN IF v.kind # "ok" THEN Set(v.kind, v.error, fact)
       ELSE IF IsNone(v.value) THEN Set("ok", "", fact)
       ELSE IF Unwrap(v.value) < 0 THEN Set("err", "Infered a negative rank", fact)
       ELSE LET u == ShapeUnify(fact.shape, ShapeFact(FALSE, Anys(Unwrap(v.value))))
            IN IF u.kind # "ok" THEN Set(u.kind, u.error, fact)
               ELSE Set("ok", "", [fact EXCEPT !.shape = u.value])

\* SetType with a bug: the datatype is overwritten, not unified.
SetTypeOverwrite(fact, value) ==
    LET v == FromWrapped("Type", value)
    IN IF v.kind # "ok" THEN Set(v.kind, v.error, fact)
       ELSE Set("ok", "", [fact EXCEPT !.datatype = v.value])

\* set_tensorfact_path, `[0]`: the type of the TensorFact.
SetType(fact, value) ==
    LET v == FromWrapped("Type", value)
        u == Unify(v.value, fact.datatype)
    IN IF v.kind # "ok" THEN Set(v.kind, v.error, fact)
       ELSE IF u.kind # "ok" THEN Set(u.kind, u.error, fact)
       ELSE Set("ok", "", [fact EXCEPT !.datatype = u.value])

\* set_tensorfact_path, `[2]`: the whole shape of the TensorFact.
SetShape(fact, value) ==
    LET v == FromWrapped("Shape", value)
        u == ShapeUnify(v.value, fact.shape)
    IN IF v.kind # "ok" THEN Set(v.kind, v.error, fact)
       ELSE IF u.kind # "ok" THEN Set(u.kind, u.error, fact)
       ELSE Set("ok", "", [fact EXCEPT !.shape = u.value])

\* set_tensorfact_path, `[2, k]`: one dimension of the TensorFact.
SetDim(fact, k, value) ==
    LET v == FromWrapped("Dim", value)
        u == ShapeUnify(fact.shape, ShapeFact(TRUE, Append(Anys(k), v.value)))
    IN IF k < 0 THEN Set("panic", "called Option::unwrap() on a None value", fact)
       ELSE IF v.kind # "ok" THEN Set(v.kind, v.error, fact)
       ELSE IF u.kind # "ok" THEN Set(u.kind, u.error, fact)
       ELSE Set("ok", "", [fact EXCEPT !.shape = u.value])

\* SetValueFact with a bug: the shape and the type are left as they were.
SetValueOnly(fact, value) ==
    LET v == FromWrapped("Value", value)
        u == Unify(fact.value, v.value)
    IN IF v.kind # "ok" THEN Set(v.kind, v.error, fact)
       ELSE IF u.kind # "ok" THEN Set(u.kind, u.error, fact)
       ELSE Set("ok", "", [fact EXCEPT !.value = u.value])

\* set_tensorfact_path, `[3]`: the value of the TensorFact; a known value
\* is unified into the shape and the type as well, one after the other.
SetValueFact(fact, value) ==
    LET v == FromWrapped("Value", value)
        u == Unify(fact.value, v.value)
        f1 == [fact EXCEPT !.value = u.value]
        us == ShapeUnify(f1.shape, ShapeFactFrom(Unwrap(f1.value)))
        f2 == [f1 EXCEPT !.shape = us.value]
        ut == Unify(f2.datatype, TypeFactFrom(Unwrap(f1.value)))
    IN IF v.kind # "ok" THEN Set(v.kind, v.error, fact)
       ELSE IF u.kind # "ok" THEN Set(u.kind, u.error, fact)
       ELSE IF IsNone(f1.value) THEN Set("ok", "", f1)
       ELSE IF us.kind # "ok" THEN Set(us.kind, us.error, f1)
       ELSE IF ut.kind # "ok" THEN Set(ut.kind, ut.error, f2)
       ELSE Set("ok", "", [f2 EXCEPT !.datatype = ut.value])

\* set_tensorfact_path
SetTensorfactPath(fact, path, value) ==
    IF path = <<0>> THEN SetType(fact, value)
    ELSE IF path = <<1>> THEN SetRank(fact, value)
    ELSE IF path = <<2>> THEN SetShape(fact, value)
    ELSE IF Len(path) = 2 /\ path[1] = 2 THEN SetDim(fact, path[2], value)
    ELSE IF path = <<3>> THEN SetValueFact(fact, value)
    ELSE IF path = <<>> THEN Set("panic", "index out of bounds", fact)
    ELSE IF path[1] = 3 THEN Set("ok", "", fact)
    ELSE Set("err", "The subpath should start with 0, 1, 2 or 3", fact)

\* set_tensorfacts_path, `[-1]`: the number of facts in the set.
SetLen(fs, value) ==
    LET v == FromWrapped("Int", value)
    IN IF v.kind # "ok" THEN Set(v.kind, v.error, fs)
       ELSE IF IsSome(v.value) /\ Unwrap(v.value) < 0
       THEN Set("panic", "called Option::unwrap() on a None value", fs)
       ELSE IF IsSome(v.value) /\ Unwrap(v.value) # Len(fs)
       THEN Set("err", "Can't set the length of the given set of facts", fs)
       ELSE Set("ok", "", fs)

\* set_tensorfacts_path
SetTensorfactsPath(fs, path, value) ==
    IF path = <<-1>> THEN SetLen(fs, value)
    ELSE IF path = <<>> THEN Set("panic", "index out of bounds", fs)
    ELSE IF path[1] >= 0
    THEN IF path[1] < Len(fs)
         THEN LET r == SetTensorfactPath(fs[path[1] + 1], Tail(path), value)
              IN Set(r.kind, r.error, [fs EXCEPT ![path[1] + 1] = r.out])
         ELSE Set("err", "There are not that many facts in the given set", fs)
    ELSE Set("err", "The first component of subpath should be -1 or a valid fact index", fs)

\* set_path with a bug: the set of facts is always the inputs.
SetPathOfInputs(ctx, path, value) ==
    IF path = <<>> THEN Set("panic", "index out of bounds", ctx)
    ELSE IF path[1] \in {0, 1}
    THEN LET r == SetTensorfactsPath(ctx.inputs, Tail(path), value)
         IN Set(r.kind, r.error, [ctx EXCEPT !.inputs = r.out])
    ELSE Set("err", "The first component of path should be 0 or 1", ctx)

\* set_path
SetPath(ctx, path, value) ==
    IF path = <<>> THEN Set("panic", "index out of bounds", ctx)
    ELSE IF path[1] = 0
    THEN LET r == SetTensorfactsPath(ctx.inputs, Tail(path), value)
         IN Set(r.kind, r.error, [ctx EXCEPT !.inputs = r.out])
    ELSE IF path[1] = 1
    THEN LET r == SetTensorfactsPath(ctx.outputs, Tail(path), value)
         IN Set(r.kind, r.error, [ctx EXCEPT !.outputs = r.out])
    ELSE Set("err", "The first component of path should be 0 or 1", ctx)

----------------------------------------------------------------------------
(* Expression::get and Expression::set                                     *)
(* (src/src/analyser/interface/expressions.rs).  The bodies of             *)
(* ProductExpression::get and ProductExpression::set are unimplemented!(). *)

\* expression.get(context)
ExpressionGet(e, ctx) ==
    IF e.expr = "Constant" THEN Ok(e.value)
    ELSE IF e.expr = "Variable" THEN GetPath(ctx, e.path)
    ELSE Panic("not yet implemented")

\* expression.set(context, value)
ExpressionSet(e, ctx, value) ==
    IF e.expr = "Constant"
    THEN IF e.value = value THEN Set("ok", "", ctx)
         ELSE Set("err", "Cannot set the value of constant", ctx)
    ELSE IF e.expr = "Variable" THEN SetPath(ctx, e.path, value)
    ELSE Set("panic", "not yet implemented", ctx)

----------------------------------------------------------------------------
(* The calls of get_path and set_path: one call on a Context drawn from    *)
(* the facts below, with a path and a value drawn from the sets below.     *)

Tensors ==
    {[datatype |-> "I32", shape |-> <<2>>, data |-> <<1, 3>>],
     [datatype |-> "F32", shape |-> <<>>, data |-> <<5>>]}

PathFacts ==
    {TensorFactNew,
     TensorFact(Some("DT_INT32"), TRUE, <<>>, None),
     TensorFact(None, FALSE, <<None, Some(2), None>>, None),
     TensorFact(None, TRUE, <<Some(1)>>, None),
     TensorFact(None, FALSE, <<>>, None),
     TensorFact(Some("DT_INT32"), FALSE, <<Some(2)>>,
                Some([datatype |-> "I32", shape |-> <<2>>, data |-> <<1, 3>>]))}

Paths ==
    {<<>>, <<2>>, <<0>>, <<0, -1>>, <<1, -1>>, <<0, -2>>, <<0, 0>>,
     <<0, 0, 0>>, <<0, 0, 1>>, <<1, 0, 1>>, <<0, 1, 1>>, <<0, 0, 1, 0>>,
     <<0, 0, 2>>, <<0, 0, 2, 0>>, <<0, 0, 2, 1>>, <<1, 0, 2, 1>>,
     <<0, 0, 2, -1>>, <<0, 0, 2, 0, 0>>,
     <<0, 0, 3>>, <<0, 0, 3, 0>>, <<0, 0, 3, -1>>, <<0, 0, 4>>}

Values ==
    {Wrapped("Int", v) : v \in {None, Some(0), Some(1), Some(2), Some(-1)}}
    \cup {Wrapped("Dim", v) : v \in {None, Some(2), Some(3)}}
    \cup {Wrapped("Type", v) : v \in {None, Some("DT_INT32"), Some("DT_FLOAT")}}
    \cup {Wrapped("Shape", v) : v \in {ShapeFact(TRUE, <<>>),
                                       ShapeFact(FALSE, <<None, Some(2)>>),
                                       ShapeFact(TRUE, <<Some(1), None>>)}}
    \cup {Wrapped("Value", v) : v \in {None} \cup {Some(t) : t \in Tensors}}

InitPath ==
    /\ \E fi \in SeqsUpTo(PathFacts, MaxFacts), fo \in SeqsUpTo(Facts, MaxFacts) :
          context = ContextNew(<<fi, fo>>)
    /\ path_call = None
    /\ solver_pc = "off" /\ rules = <<>> /\ cursor = 0 /\ changed = FALSE
    /\ added_rules = <<>> /\ facts = <<>>
    /\ nodes = <<>> /\ PlanOff /\ ExecOff /\ ModelOff
    /\ unify_call = <<>> /\ eval_call = <<>> /\ StreamOff

\* Context::get(path), that is get_path(context, path).
CallGetPath(path) ==
    /\ IsNone(path_call)
    /\ path_call' = Some([op |-> "get", path |-> path, value |-> None,
                          before |-> context, result |-> GetPath(context, path)])
    /\ UNCHANGED <<context, solver_pc, rules, cursor, changed, added_rules, facts,
                   nodes, planVars, execVars, modelVars,
                   latticeVars, opVars>>

\* Context::set(path, value), that is set_path(context, path, value).
CallSetPath(path, value) ==
    /\ IsNone(path_call)
    /\ LET r == SetPath(context, path, value)
       IN /\ context' = r.out
          /\ path_call' = Some([op |-> "set", path |-> path, value |-> value,
                                before |-> context, result |-> r])
    /\ UNCHANGED <<solver_pc, rules, cursor, changed, added_rules, facts,
                   nodes, planVars, execVars, modelVars,
                   latticeVars, opVars>>

\* Context::get(path) has returned Ok(value): Context::set(path, value) with
\* the same path and the value that was read.
CallSetBack ==
    /\ IsSome(path_call)
    /\ Unwrap(path_call).op = "get"
    /\ Unwrap(path_call).result.kind = "ok"
    /\ LET path == Unwrap(path_call).path
           value == Unwrap(path_call).result.value
           r == SetPath(context, path, value)
       IN /\ context' = r.out
          /\ path_call' = Some([op |-> "set_back", path |-> path, value |-> value,
                                before |-> context, result |-> r])
    /\ UNCHANGED <<solver_pc, rules, cursor, changed, added_rules, facts,
                   nodes, planVars, execVars, modelVars,
                   latticeVars, opVars>>

\* The scaled integers (k, e) that are set, e the rank of the first input
\* or the number of inputs, and the integers m they are set to.
Products == {ProductExpression(k, path) : k \in {0, 2, -1}, path \in {<<0, 0, 1>>, <<0, -1>>}}
ProductValues == {0, 1, 2, 4, -2}

\* ProductExpression(k, e).set(context, m)
CallSetProduct(e, m) ==
    /\ IsNone(path_call)
    /\ LET r == ExpressionSet(e, context, Wrapped("Int", Some(m)))
       IN /\ context' = r.out
          /\ path_call' = Some([op |-> "set_product", path |-> e.path,
                                value |-> Wrapped("Int", Some(m)),
                                before |-> context, result |-> r, k |-> e.k])
    /\ UNCHANGED <<solver_pc, rules, cursor, changed, added_rules, facts,
                   nodes, planVars, execVars, modelVars,
                   latticeVars, opVars>>

NextPath ==
    \/ \E path \in Paths : CallGetPath(path)
    \/ \E path \in Paths, value \in Values : CallSetPath(path, value)
    \/ CallSetBack
    \/ \E e \in Products, m \in ProductValues : CallSetProduct(e, m)

SpecPath == InitPath /\ [][NextPath]_vars

----------------------------------------------------------------------------
(* A sequence of Context::set calls on one Context, as the rules of a      *)
(* solver make them: the sequence ends with the first call that fails,     *)
(* since the error is returned by infer and the Context is dropped.        *)

InitSets ==
    /\ \E f \in PathFacts : context = ContextNew(<<<<f>>, <<>>>>)
    /\ path_call = None
    /\ solver_pc = "off" /\ rules = <<>> /\ cursor = 0 /\ changed = FALSE
    /\ added_rules = <<>> /\ facts = <<>>
    /\ nodes = <<>> /\ PlanOff /\ ExecOff /\ ModelOff
    /\ unify_call = <<>> /\ eval_call = <<>> /\ StreamOff

\* The number of set calls made so far.
Calls == IF IsNone(path_call) THEN 0 ELSE Unwrap(path_call).calls

\* Context::set(path, value) after the calls before it have succeeded.
CallSetNext(path, value) ==
    /\ Calls < MaxSets
    /\ IsSome(path_call) => Unwrap(path_call).result.kind = "ok"
    /\ LET r == SetPath(context, path, value)
       IN /\ context' = r.out
          /\ path_call' = Some([op |-> "set", path |-> path, value |-> value,
                                before |-> context, result |-> r,
                                calls |-> Calls + 1])
    /\ UNCHANGED <<solver_pc, rules, cursor, changed, added_rules, facts,
                   nodes, planVars, execVars, modelVars,
                   latticeVars, opVars>>

NextSets == \E path \in Paths, value \in Values : CallSetNext(path, value)

SpecSets == InitSets /\ [][NextSets]_vars

----------------------------------------------------------------------------
(* Fact::unify as a process: one call unify(x, y) on two facts of one      *)
(* kind, then the nested calls unify(unify(x, y), z) and                   *)
(* unify(x, unify(y, z)) with a third fact.                                *)

\* TensorFact::unify: the fields are unified one by one, then a known
\* value forces the shape and the datatype.
TensorUnify(x, y) ==
    LET t == Unify(x.datatype, y.datatype)
        sh == ShapeUnify(x.shape, y.shape)
        v == Unify(x.value, y.value)
        st == ShapeUnify(sh.value, ShapeFactFrom(Unwrap(v.value)))
        tt == Unify(t.value, TypeFactFrom(Unwrap(v.value)))
    IN IF t.kind # "ok" \/ sh.kind # "ok" \/ v.kind # "ok"
       THEN Err("Impossible to unify")
       ELSE IF IsNone(v.value)
       THEN Ok([datatype |-> t.value, shape |-> sh.value, value |-> v.value])
       ELSE IF st.kind # "ok" \/ tt.kind # "ok" THEN Err("Impossible to unify")
       ELSE Ok([datatype |-> tt.value, shape |-> st.value, value |-> v.value])

\* x.unify(&y) for two facts of the kind `kind`.
UnifyOf(kind, x, y) ==
    IF kind = "Shape" THEN ShapeUnify(x, y)
    ELSE IF kind = "Tensor" THEN TensorUnify(x, y)
    ELSE Unify(x, y)

\* x.unify(&y)?.unify(&z)
UnifyLeft(kind, x, y, z) ==
    LET xy == UnifyOf(kind, x, y)
    IN IF xy.kind # "ok" THEN xy ELSE UnifyOf(kind, xy.value, z)

\* x.unify(&y.unify(&z)?)
UnifyRight(kind, x, y, z) ==
    LET yz == UnifyOf(kind, y, z)
    IN IF yz.kind # "ok" THEN yz ELSE UnifyOf(kind, x, yz.value)

\* set_tensorfact_path on a TensorFact whose datatype ([0]), shape ([2]) or
\* value ([3]) is x and that knows nothing else, with the value y.
SetField(kind, x, y) ==
    CASE kind = "Type" ->
            SetTensorfactPath([TensorFactNew EXCEPT !.datatype = x], <<0>>, Wrapped(kind, y))
      [] kind = "Shape" ->
            SetTensorfactPath([TensorFactNew EXCEPT !.shape = x], <<2>>, Wrapped(kind, y))
      [] kind = "Value" ->
            SetTensorfactPath([TensorFactNew EXCEPT !.value = x], <<3>>, Wrapped(kind, y))
      [] OTHER -> Set("ok", "", TensorFactNew)

\* The field of a TensorFact that holds the fact of the kind `kind`.
Field(kind, fact) ==
    CASE kind = "Type" -> fact.datatype
      [] kind = "Shape" -> fact.shape
      [] OTHER -> fact.value

\* The facts that know nothing.
AnyFact(kind) ==
    IF kind = "Shape" THEN ShapeFact(TRUE, <<>>)
    ELSE IF kind = "Tensor" THEN TensorFactNew
    ELSE None

DimFacts == {None, Some(1), Some(2)}

\* The facts of each kind that are unified.
UnifyFacts(kind) ==
    CASE kind = "Type" -> {None, Some("DT_INT32"), Some("DT_FLOAT")}
      [] kind = "Int" -> {None, Some(0), Some(2)}
      [] kind = "Dim" -> DimFacts
      [] kind = "Value" -> {None} \cup {Some(t) : t \in Tensors}
      [] kind = "Shape" -> {ShapeFact(open, dims) :
                               open \in BOOLEAN, dims \in SeqsUpTo(DimFacts, MaxDims)}
      [] OTHER -> PathFacts \cup {TensorFact(Some("DT_FLOAT"), FALSE, <<>>,
                                       Some([datatype |-> "F32", shape |-> <<>>,
                                             data |-> <<5>>]))}

Kinds == {"Type", "Int", "Dim", "Value", "Shape", "Tensor"}

InitUnify ==
    /\ unify_call = None
    /\ path_call = <<>> /\ eval_call = <<>> /\ StreamOff
    /\ nodes = <<>> /\ PlanOff /\ ExecOff /\ SolverOff /\ ModelOff

\* x.unify(&y) and y.unify(&x); for a datatype, a shape and a value, also
\* the set of the field that holds x to y and the other way round.
CallUnify(kind, x, y) ==
    /\ IsNone(unify_call)
    /\ unify_call' = Some([op |-> "unify", kind |-> kind, x |-> x, y |-> y, z |-> AnyFact(kind),
                           this |-> UnifyOf(kind, x, y),
                           other |-> UnifyOf(kind, y, x),
                           set_this |-> SetField(kind, x, y),
                           set_other |-> SetField(kind, y, x)])
    /\ UNCHANGED <<nodes, planVars, execVars, solverVars, modelVars, path_call, opVars>>

\* After x.unify(&y): x.unify(&y)?.unify(&z) and x.unify(&y.unify(&z)?).
CallUnifyNested(z) ==
    /\ IsSome(unify_call)
    /\ Unwrap(unify_call).op = "unify"
    /\ LET c == Unwrap(unify_call)
       IN unify_call' = Some([c EXCEPT !.op = "nested", !.z = z,
                                       !.this = UnifyLeft(c.kind, c.x, c.y, z),
                                       !.other = UnifyRight(c.kind, c.x, c.y, z)])
    /\ UNCHANGED <<nodes, planVars, execVars, solverVars, modelVars, path_call, opVars>>

NextUnify ==
    \/ /\ IsNone(unify_call)
       /\ \E kind \in Kinds : \E x \in UnifyFacts(kind), y \in UnifyFacts(kind) :
              CallUnify(kind, x, y)
    \/ /\ IsSome(unify_call) /\ Unwrap(unify_call).op = "unify"
       /\ \E z \in UnifyFacts(Unwrap(unify_call).kind) : CallUnifyNested(z)

SpecUnify == InitUnify /\ [][NextUnify]_vars

----------------------------------------------------------------------------
(* The array operators Pack and Pad (src/src/ops/array).  A tensor is      *)
(* [datatype, shape, data]: data holds the elements in row-major order,    *)
(* an index is a sequence of positions counted from 0.                     *)

\* The number of elements of an array of that shape.
RECURSIVE Product(_)
Product(shape) ==
    IF shape = <<>> THEN 1 ELSE Head(shape) * Product(Tail(shape))

\* The place of the element at `index` in the data, counted from 0, and
\* the index of the element at place k.
RECURSIVE Offset(_, _)
Offset(shape, index) ==
    IF shape = <<>> THEN 0
    ELSE Head(index) * Product(Tail(shape)) + Offset(Tail(shape), Tail(index))

RECURSIVE IndexOf(_, _)
IndexOf(shape, k) ==
    IF shape = <<>> THEN <<>>
    ELSE <<k \div Product(Tail(shape))>>
             \o IndexOf(Tail(shape), k % Product(Tail(shape)))

Indices(shape) == {IndexOf(shape, k) : k \in 0..(Product(shape) - 1)}

\* array[index]
At(tensor, index) == tensor.data[Offset(tensor.shape, index) + 1]

\* T::tensor_to_view(m): the array of the tensor if its datatype is T.
TensorToView(T, m) ==
    IF m.datatype = T THEN Ok(m) ELSE Err("unmatched data type")

\* ArrayView::insert_axis(Axis(axis)): an axis of length 1 at `axis`, which
\* is asserted to be at most the number of dimensions.
InsertAxis(view, axis) ==
    IF axis > Len(view.shape)
    THEN Panic("assertion failed: axis.index() <= self.ndim()")
    ELSE Ok([view EXCEPT !.shape = SubSeq(view.shape, 1, axis) \o <<1>>
                                       \o SubSeq(view.shape, axis + 1, Len(view.shape))])

\* Dimension::remove_axis(Axis(axis))
RemoveAxis(shape, axis) ==
    SubSeq(shape, 1, axis) \o SubSeq(shape, axis + 2, Len(shape))

\* The lengths along `axis` of the first k views, added up.
RECURSIVE LenBefore(_, _, _)
LenBefore(views, axis, k) ==
    IF k = 0 THEN 0
    ELSE LenBefore(views, axis, k - 1) + views[k].shape[axis + 1]

\* ndarray::stack(Axis(axis), views): the views one after the other along
\* `axis`; no view, an axis the views do not have and views whose other
\* dimensions differ are errors.
Stack(axis, views) ==
    IF views = <<>> THEN Err("ShapeError/Unsupported")
    ELSE IF axis >= Len(views[1].shape) THEN Err("ShapeError/OutOfBounds")
    ELSE IF \E k \in 1..Len(views) :
                RemoveAxis(views[k].shape, axis) # RemoveAxis(views[1].shape, axis)
    THEN Err("ShapeError/IncompatibleShape")
    ELSE LET shape == [views[1].shape EXCEPT
                           ![axis + 1] = LenBefore(views, axis, Len(views))]
             from(index) == CHOOSE k \in 1..Len(views) :
                                /\ LenBefore(views, axis, k - 1) <= index[axis + 1]
                                /\ index[axis + 1] < LenBefore(views, axis, k)
             element(index) ==
                 At(views[from(index)],
                    [index EXCEPT ![axis + 1] =
                         index[axis + 1] - LenBefore(views, axis, from(index) - 1)])
         IN Ok([datatype |-> views[1].datatype,
                shape |-> shape,
                data |-> [k \in 1..Product(shape) |-> element(IndexOf(shape, k - 1))]])

\* An operator: its kind, its datatype T and, for Pack, n and axis.
OpNew(name, T, n, axis) == [name |-> name, T |-> T, n |-> n, axis |-> axis]

\* Pack::eval, the views: each input as an array of T with the new axis,
\* up to the first input that fails.
RECURSIVE PackViews(_, _)
PackViews(op, inputs) ==
    IF inputs = <<>> THEN Ok(<<>>)
    ELSE LET view == TensorToView(op.T, Head(inputs))
             with_axis == InsertAxis(view.value, op.axis)
             others == PackViews(op, Tail(inputs))
         IN IF view.kind # "ok" THEN view
            ELSE IF with_axis.kind # "ok" THEN with_axis
            ELSE IF others.kind # "ok" THEN others
            ELSE Ok(<<with_axis.value>> \o others.value)

\* PackEval with a bug: the inputs are stacked along the first axis.
PackEvalFirstAxis(op, inputs) ==
    LET views == PackViews([op EXCEPT !.axis = 0], inputs)
        array == Stack(0, views.value)
    IN IF views.kind # "ok" THEN views
       ELSE IF array.kind # "ok" THEN array
       ELSE Ok(<<array.value>>)

\* Pack::eval
PackEval(op, inputs) ==
    LET views == PackViews(op, inputs)
        array == Stack(op.axis, views.value)
    IN IF views.kind # "ok" THEN views
       ELSE IF array.kind # "ok" THEN array
       ELSE Ok(<<array.value>>)

\* paddings[(ix, col)]
PaddingAt(paddings, ix, col) == At(paddings, <<ix, col>>)

\* Pad::compute, the closure given to from_shape_fn: the dimensions are
\* visited in order from dimension i, the first one in which the index is
\* in the padding returns zero.
RECURSIVE PadElement(_, _, _, _, _)
PadElement(input, paddings, index, i, index_in_input) ==
    IF i > Len(input.shape) THEN At(input, index_in_input)
    ELSE IF \/ index[i] < PaddingAt(paddings, i - 1, 0)
            \/ index[i] - PaddingAt(paddings, i - 1, 0) >= input.shape[i]
    THEN 0
    ELSE PadElement(input, paddings, index, i + 1,
                    [index_in_input EXCEPT
                         ![i] = index[i] - PaddingAt(paddings, i - 1, 0)])

\* PadCompute with a bug: the input is placed after the trailing padding.
PadComputeTrailing(input, paddings) ==
    LET shape == [ix \in 1..Len(input.shape) |->
                      input.shape[ix] + (PaddingAt(paddings, ix - 1, 0)
                                         + PaddingAt(paddings, ix - 1, 1))]
        inside(index) == \A i \in 1..Len(input.shape) :
                             /\ index[i] >= PaddingAt(paddings, i - 1, 1)
                             /\ index[i] - PaddingAt(paddings, i - 1, 1) < input.shape[i]
        element(index) ==
            IF inside(index)
            THEN At(input, [i \in 1..Len(input.shape) |->
                                index[i] - PaddingAt(paddings, i - 1, 1)])
            ELSE 0
    IN IF /\ input.shape # <<>>
          /\ \/ paddings.shape[1] < Len(input.shape)
             \/ paddings.shape[2] < 2
       THEN Panic("ndarray: index out of bounds")
       ELSE Ok([datatype |-> input.datatype,
                shape |-> shape,
                data |-> [k \in 1..Product(shape) |-> element(IndexOf(shape, k - 1))]])

\* Pad::compute(input, paddings, None).  Reading paddings[(ix, 0)] and
\* paddings[(ix, 1)] panics when the paddings have no such row or column.
PadCompute(input, paddings) ==
    LET shape == [ix \in 1..Len(input.shape) |->
                      input.shape[ix] + (PaddingAt(paddings, ix - 1, 0)
                                         + PaddingAt(paddings, ix - 1, 1))]
    IN IF /\ input.shape # <<>>
          /\ \/ paddings.shape[1] < Len(input.shape)
             \/ paddings.shape[2] < 2
       THEN Panic("ndarray: index out of bounds")
       ELSE Ok([datatype |-> input.datatype,
                shape |-> shape,
                data |-> [k \in 1..Product(shape) |->
                              PadElement(input, paddings, IndexOf(shape, k - 1), 1,
                                         [i \in 1..Len(input.shape) |-> 0])]])

\* Pad::eval
PadEval(op, inputs) ==
    LET args == Args2(inputs)
        input == TensorToView(op.T, args.value[1])
        paddings == TensorToView("I32", args.value[2])
        array == PadCompute(input.value, paddings.value)
    IN IF args.kind # "ok" THEN args
       ELSE IF input.kind # "ok" THEN input
       ELSE IF paddings.kind # "ok" THEN paddings
       ELSE IF Len(paddings.value.shape) # 2 THEN Err("ShapeError/IncompatibleShape")
       ELSE IF array.kind # "ok" THEN array
       ELSE Ok(<<array.value>>)

\* op.eval(inputs): the dynamic dispatch on the operator.
OpEval(op, inputs) ==
    IF op.name = "Pack" THEN PackEval(op, inputs)
    ELSE IF op.name = "Pad" THEN PadEval(op, inputs)
    ELSE Eval(op.name, inputs)

----------------------------------------------------------------------------
(* Op::eval as a process: one call of eval on an operator and a vector of  *)
(* inputs drawn from the sets below.                                       *)

\* The j-th tensor of a shape: its elements differ from one another, from
\* those of the other tensors of the shape, and from zero.
TensorOf(T, shape, j) ==
    [datatype |-> T, shape |-> shape,
     data |-> [k \in 1..Product(shape) |-> 10 * j + k]]

TensorShapes == {<<>>, <<0>>, <<1>>, <<2>>, <<3>>, <<1, 2>>, <<2, 3>>, <<2, 0>>}

\* The inputs of the element-wise operators.
ElementInputs == SeqsUpTo({TensorOf("I32", <<2>>, 1), TensorOf("I32", <<2>>, 2)}, 3)

\* The paddings: an i32 array with two columns and entries in 0..MaxPad;
\* also a vector, an array with one column and an array of floats.
PaddingsOf(rows) ==
    {[datatype |-> "I32", shape |-> <<rows, 2>>, data |-> data] :
         data \in [1..(2 * rows) -> 0..MaxPad]}

Paddings ==
    PaddingsOf(0) \cup PaddingsOf(1) \cup PaddingsOf(2)
    \cup {TensorOf("I32", <<2>>, 0), TensorOf("I32", <<2, 1>>, 0),
          TensorOf("F32", <<1, 2>>, 0)}

PadInputs ==
    {<<input, paddings>> :
         input \in {TensorOf("I32", shape, 1) : shape \in TensorShapes}
                   \cup {TensorOf("F32", <<2>>, 1)},
         paddings \in Paddings}
    \cup {<<>>, <<TensorOf("I32", <<2>>, 1)>>,
          <<TensorOf("I32", <<1>>, 1), TensorOf("I32", <<1, 2>>, 0),
            TensorOf("I32", <<1, 2>>, 0)>>}

\* The inputs of Pack: up to MaxPack tensors of one shape; the last one may
\* also be of another shape or of another datatype.
PackInputs ==
    LET same(shape, k) == [j \in 1..k |-> TensorOf("I32", shape, j)]
    IN {same(shape, k) : shape \in TensorShapes, k \in 0..MaxPack}
       \cup {[same(shape, k) EXCEPT ![k] = odd] :
                 shape \in TensorShapes, k \in 1..MaxPack,
                 odd \in {TensorOf("I32", <<2, 2>>, 1), TensorOf("F32", <<2>>, 1)}}

InitOps ==
    /\ eval_call = None /\ StreamOff
    /\ unify_call = <<>>
    /\ context = ContextNew(<<<<>>, <<>>>>)
    /\ path_call = None
    /\ solver_pc = "off" /\ rules = <<>> /\ cursor = 0 /\ changed = FALSE
    /\ added_rules = <<>> /\ facts = <<>>
    /\ nodes = <<>> /\ PlanOff /\ ExecOff /\ ModelOff

\* op.eval(inputs)
CallEval(op, inputs) ==
    /\ IsNone(eval_call)
    /\ eval_call' = Some([op |-> op, inputs |-> inputs, result |-> OpEval(op, inputs)])
    /\ UNCHANGED <<nodes, planVars, execVars, solverVars, modelVars, pathVars,
                   latticeVars, buffer, stream>>

NextOps ==
    \/ \E name \in {"Map", "Bin"}, inputs \in ElementInputs :
           CallEval(OpNew(name, "I32", 0, 0), inputs)
    \/ \E inputs \in PadInputs : CallEval(OpNew("Pad", "I32", 0, 0), inputs)
    \/ \E n \in 0..MaxPack, axis \in 0..3, inputs \in PackInputs :
           CallEval(OpNew("Pack", "I32", n, axis), inputs)

SpecOps == InitOps /\ [][NextOps]_vars

----------------------------------------------------------------------------
(* Op::step of the binary element-wise operators (macros.rs:169-194) as a  *)
(* process: step is called again and again on the buffer of one operator,  *)
(* each call delivering at most one chunk on each of the two inputs.       *)

\* QueuesBuffer::new(size): one empty queue for each input.
QueuesBufferNew(size) == [type |-> "Queues", queues |-> [i \in 1..size |-> <<>>]]

\* The default of Op::new_buffer: a buffer that holds nothing.
EmptyBuffer == [type |-> "Empty", queues |-> <<>>]

\* new_buffer of element_bin!
NewBuffer == QueuesBufferNew(2)

\* QueuesBuffer::append(inputs): the chunk delivered on an input, if there
\* is one, goes to the back of the queue of that input.
QueuesBufferAppend(b, inputs) ==
    [b EXCEPT !.queues =
         [i \in 1..Len(b.queues) |->
              IF i <= Len(inputs) /\ IsSome(inputs[i][2])
              THEN Append(b.queues[i], Unwrap(inputs[i][2]))
              ELSE b.queues[i]]]

\* eval of element_bin!: two arguments, both viewed as tensors of T.
ElementBinEval(T, inputs) ==
    LET args == Args2(inputs)
        a == TensorToView(T, args.value[1])
        b == TensorToView(T, args.value[2])
    IN IF args.kind # "ok" THEN args
       ELSE IF a.kind # "ok" THEN a
       ELSE IF b.kind # "ok" THEN b
       ELSE Ok(<<Apply("bin", <<a.value, b.value>>)>>)

\* A step that pairs the chunks appended last instead of first.
StepLastIn(T, inputs, b) ==
    LET appended == QueuesBufferAppend(b, inputs)
        q == appended.queues
    IN IF b.type # "Queues"
       THEN [result |-> Err("The buffer can't be downcasted to QueuesBuffer."),
             buffer |-> b]
       ELSE IF q[1] = <<>> \/ q[2] = <<>>
       THEN [result |-> Ok(None), buffer |-> appended]
       ELSE LET out == ElementBinEval(T, <<q[1][Len(q[1])], q[2][Len(q[2])]>>)
                popped == [appended EXCEPT
                               !.queues = <<SubSeq(q[1], 1, Len(q[1]) - 1),
                                            SubSeq(q[2], 1, Len(q[2]) - 1)>>]
            IN [result |-> IF out.kind = "ok" THEN Ok(Some(out.value)) ELSE out,
                buffer |-> popped]

\* step of element_bin!: the result of the call and the buffer it leaves.
Step(T, inputs, b) ==
    LET appended == QueuesBufferAppend(b, inputs)
        q == appended.queues
    IN IF b.type # "Queues"
       THEN [result |-> Err("The buffer can't be downcasted to QueuesBuffer."),
             buffer |-> b]
       ELSE IF q[1] = <<>> \/ q[2] = <<>>
       THEN [result |-> Ok(None), buffer |-> appended]
       ELSE LET out == ElementBinEval(T, <<Head(q[1]), Head(q[2])>>)
                popped == [appended EXCEPT !.queues = <<Tail(q[1]), Tail(q[2])>>]
            IN [result |-> IF out.kind = "ok" THEN Ok(Some(out.value)) ELSE out,
                buffer |-> popped]

\* The j-th chunk delivered on an input: the chunks all differ.
Chunk(input, T, j) == TensorOf(T, <<2>>, 2 * j - input)

\* What a call may deliver on an input, the j-th time something is delivered
\* on it: nothing, or a chunk of I32 or of F32; the stream axis is 0.
Deliveries(input, j) ==
    {<<Some(0), None>>} \cup {<<Some(0), Some(Chunk(input, T, j))>> : T \in {"I32", "F32"}}

InitStream ==
    /\ buffer \in {NewBuffer, EmptyBuffer}
    /\ stream = <<>>
    /\ eval_call = <<>> /\ path_call = <<>> /\ unify_call = <<>>
    /\ nodes = <<>> /\ PlanOff /\ ExecOff /\ SolverOff /\ ModelOff

\* op.step(inputs, &mut buffer), for the operator Add::<i32>.
CallStep(inputs) ==
    /\ Len(stream) < MaxSteps
    /\ LET r == Step("I32", inputs, buffer)
       IN /\ buffer' = r.buffer
          /\ stream' = Append(stream, [inputs |-> inputs, before |-> buffer,
                                       result |-> r.result])
    /\ UNCHANGED <<nodes, planVars, execVars, solverVars, modelVars, pathVars,
                   latticeVars, eval_call>>

\* The chunks received on an input so far, in the order of their arrival.
Received(input) ==
    LET delivered == SelectSeq(stream, LAMBDA c : IsSome(c.inputs[input + 1][2]))
    IN [k \in 1..Len(delivered) |-> Unwrap(delivered[k].inputs[input + 1][2])]

NextStream ==
    \E a \in Deliveries(0, Len(Received(0)) + 1),
       b \in Deliveries(1, Len(Received(1)) + 1) : CallStep(<<a, b>>)

SpecStream == InitStream /\ [][NextStream]_vars

----------------------------------------------------------------------------
(* Solver::infer (solver.rs:242-280) as a process: a step for the head of  *)
(* the while loop, one for each rule of a pass, one for the end of a pass. *)

\* The rules the solver holds: those of the tests of solver.rs
\* (equals(inputs[0].rank, 2), equals(inputs[0].shape[1], 0),
\* equals(inputs.len, 1), equals(2, 2), equals(1, 2),
\* equals(inputs[0].shape[1], outputs[0].shape[1])), the equals_zero of
\* Pack::rules and a given on inputs[0].rank.
Rules ==
    {EqualsRule(<<VariableExpression(<<0, 0, 1>>), ConstantExpression(Wrapped("Int", Some(2)))>>),
     EqualsRule(<<VariableExpression(<<0, 0, 2, 1>>), ConstantExpression(Wrapped("Int", Some(0)))>>),
     EqualsRule(<<VariableExpression(<<0, -1>>), ConstantExpression(Wrapped("Int", Some(1)))>>),
     EqualsRule(<<ConstantExpression(Wrapped("Int", Some(2))),
                  ConstantExpression(Wrapped("Int", Some(2)))>>),
     EqualsRule(<<ConstantExpression(Wrapped("Int", Some(1))),
                  ConstantExpression(Wrapped("Int", Some(2)))>>),
     EqualsRule(<<VariableExpression(<<0, 0, 2, 1>>), VariableExpression(<<1, 0, 2, 1>>)>>),
     EqualsZeroRule(<<ProductExpression(-1, <<1, 0, 1>>),
                      ConstantExpression(Wrapped("Int", Some(1))),
                      ProductExpression(1, <<0, 0, 1>>)>>),
     EqualsZeroRule(<<ConstantExpression(Wrapped("Int", Some(1))),
                      ConstantExpression(Wrapped("Int", Some(-1)))>>),
     GivenRule(VariableExpression(<<0, 0, 1>>), <<"equals_all_dims">>)}

\* The rules of tests::solver_ranks, in the order of the test.
SolverRanks ==
    <<EqualsRule(<<VariableExpression(<<0, 0, 1>>), ConstantExpression(Wrapped("Int", Some(3)))>>),
      EqualsRule(<<VariableExpression(<<0, 0, 2, 0>>), VariableExpression(<<0, 0, 2, 1>>)>>),
      EqualsRule(<<VariableExpression(<<0, 0, 2, 1>>), VariableExpression(<<0, 0, 2, 2>>)>>),
      EqualsRule(<<VariableExpression(<<0, 0, 2, 1>>), ConstantExpression(Wrapped("Int", Some(3)))>>)>>

\* The same rules added in another order.
Reordered(rs) == {[k \in 1..Len(rs) |-> rs[p[k]]] : p \in Permutations(1..Len(rs))}

\* Solver::infer as a function: the for loop from the rule k on, then the
\* while loop from one pass on.  The result of a pass is [kind, error,
\* context, rules, changed, added]; the result of infer is Ok(facts), an
\* error or a panic.
RECURSIVE InferPass(_, _, _, _, _)
InferPass(ctx, rs, k, ch, added) ==
    IF k > Len(rs)
    THEN [kind |-> "ok", error |-> "", context |-> ctx, rules |-> rs,
          changed |-> ch, added |-> added]
    ELSE IF rs[k].used THEN InferPass(ctx, rs, k + 1, ch, added)
    ELSE LET a == RuleApply(rs[k].rule, ctx)
         IN IF a.kind # "ok"
            THEN [kind |-> a.kind, error |-> "", context |-> a.context, rules |-> rs,
                  changed |-> ch, added |-> added]
            ELSE InferPass(a.context, [rs EXCEPT ![k].used = @ \/ a.used], k + 1,
                           ch \/ a.used \/ Len(a.added) > 0, added \o a.added)

RECURSIVE InferLoop(_, _)
InferLoop(ctx, rs) ==
    LET pass == InferPass(ctx, rs, 1, FALSE, <<>>)
    IN IF pass.kind = "panic" THEN Panic("not yet implemented")
       ELSE IF pass.kind = "err" THEN Err("a rule failed")
       ELSE IF pass.changed
       THEN InferLoop(pass.context,
                      pass.rules \o [k \in 1..Len(pass.added) |->
                                         [used |-> FALSE, rule |-> pass.added[k]]])
       ELSE Ok(<<pass.context.inputs, pass.context.outputs>>)

Infer(rs, fs) ==
    InferLoop(ContextNew(fs), [k \in 1..Len(rs) |-> [used |-> FALSE, rule |-> rs[k]]])

\* Pack::rules (pack.rs:49-81): the rules the operator Pack with n inputs
\* and the given axis adds to a solver.  The two closures are named by the
\* rules they are to add: the equality of the dims of all inputs, and the
\* equality of the dims of the output with those of the first input.
PackRules(n, axis) ==
    <<EqualsRule(<<VariableExpression(<<0, -1>>), ConstantExpression(Wrapped("Int", Some(n)))>>),
      EqualsRule(<<VariableExpression(<<1, -1>>), ConstantExpression(Wrapped("Int", Some(1)))>>),
      EqualsRule([i \in 1..n |-> VariableExpression(<<0, i - 1, 1>>)]),
      EqualsZeroRule(<<ProductExpression(-1, <<1, 0, 1>>),
                       ConstantExpression(Wrapped("Int", Some(1))),
                       ProductExpression(1, <<0, 0, 1>>)>>),
      GivenRule(VariableExpression(<<0, 0, 1>>), <<"equals_all_dims">>),
      GivenRule(VariableExpression(<<0, 0, 1>>), <<"equals_output_dims">>),
      EqualsRule(<<VariableExpression(<<1, 0, 2, axis>>),
                   ConstantExpression(Wrapped("Int", Some(n)))>>)>>

\* The shapes of the inputs given to the analysis of Pack.
PackShapes == {<<2>>, <<2, 3>>}

\* The fact of a tensor of datatype T whose shape is fully known: a closed
\* shape with every dim known, the value unknown.
KnownShape(T, s) == TensorFact(Some(T), FALSE, [k \in 1..Len(s) |-> Some(s[k])], None)

\* The facts the analysis of Pack starts from: n inputs of the shape s, and
\* an output of which nothing is known.
PackFacts(n, s) == <<[i \in 1..n |-> KnownShape("DT_INT32", s)], <<TensorFactNew>>>>

InitSolver ==
    /\ \/ /\ \E fi \in SeqsUpTo(Facts, MaxFacts), fo \in SeqsUpTo(Facts, MaxFacts) :
                facts = <<fi, fo>>
          /\ \E rs \in SeqsUpTo(Rules, MaxRules) \cup Reordered(SolverRanks) :
                rules = [k \in 1..Len(rs) |-> [used |-> FALSE, rule |-> rs[k]]]
       \/ \E n \in 1..MaxPack, s \in PackShapes :
             \E axis \in 0..Len(s) :
                /\ facts = PackFacts(n, s)
                /\ rules = [k \in 1..7 |-> [used |-> FALSE, rule |-> PackRules(n, axis)[k]]]
    /\ context = ContextNew(facts)
    /\ changed = TRUE
    /\ added_rules = <<>>
    /\ cursor = 0
    /\ solver_pc = "while"
    /\ nodes = <<>> /\ PlanOff /\ ExecOff /\ ModelOff /\ PathOff

\* `while changed { changed = false; ...`, or the return after the loop.
InferWhile ==
    /\ solver_pc = "while"
    /\ IF changed
       THEN /\ changed' = FALSE /\ cursor' = 1 /\ solver_pc' = "for"
       ELSE /\ solver_pc' = "returned" /\ UNCHANGED <<changed, cursor>>
    /\ UNCHANGED <<context, rules, added_rules, nodes, facts, planVars, execVars, modelVars, pathVars, latticeVars, opVars>>

\* One iteration of `for (used, rule) in &mut rules`: a used rule is
\* skipped, another one is applied; `?` returns its error, a panic unwinds.
InferRule ==
    /\ solver_pc = "for" /\ cursor <= Len(rules)
    /\ LET r == rules[cursor]
           a == RuleApply(r.rule, context)
       IN IF r.used
          THEN /\ cursor' = cursor + 1
               /\ UNCHANGED <<solver_pc, context, rules, changed, added_rules>>
          ELSE IF a.kind = "ok"
          THEN /\ context' = a.context
               /\ rules' = [rules EXCEPT ![cursor].used = @ \/ a.used]
               /\ changed' = (changed \/ a.used \/ Len(a.added) > 0)
               /\ added_rules' = added_rules \o a.added
               /\ cursor' = cursor + 1
               /\ UNCHANGED solver_pc
          ELSE /\ context' = a.context
               /\ solver_pc' = IF a.kind = "panic" THEN "panicked" ELSE "failed"
               /\ UNCHANGED <<rules, changed, added_rules, cursor>>
    /\ UNCHANGED <<nodes, facts, planVars, execVars, modelVars, pathVars, latticeVars, opVars>>

\* The end of a pass: `for rule in added_rules.drain(..)` pushes the added
\* rules, unused.
InferPassEnd ==
    /\ solver_pc = "for" /\ cursor > Len(rules)
    /\ rules' = rules \o [k \in 1..Len(added_rules) |->
                              [used |-> FALSE, rule |-> added_rules[k]]]
    /\ added_rules' = <<>>
    /\ solver_pc' = "while"
    /\ UNCHANGED <<context, cursor, changed, nodes, facts, planVars, execVars, modelVars, pathVars, latticeVars, opVars>>

NextSolver == InferWhile \/ InferRule \/ InferPassEnd

SpecSolver == InitSolver /\ [][NextSolver]_vars

----------------------------------------------------------------------------
(* The claims about the planner, checked under SpecPlan.                   *)

\* C1: in every plan returned by Plan::for_model, each node comes strictly
\* after the producer of each of its inputs, tensor inputs and control-only
\* inputs alike.
C1_PlanRespectsInputs ==
    plan_pc = "ok" =>
        \A k \in 1..Len(order) :
            \A j \in 1..Len(nodes[order[k]].inputs) :
                \E m \in 1..(k - 1) : order[m] = nodes[order[k]].inputs[j].node

\* A returned plan with a node that has a tensor input and a control-only
\* input, from two producers.
C1_Witness ==
    /\ plan_pc = "ok"
    /\ \E k \in 1..Len(order) :
          \E i, j \in 1..Len(nodes[order[k]].inputs) :
              /\ IsSome(nodes[order[k]].inputs[i].output)
              /\ IsNone(nodes[order[k]].inputs[j].output)
              /\ nodes[order[k]].inputs[i].node # nodes[order[k]].inputs[j].node

\* C2: plan construction always terminates, with a plan or with the error
\* "Could not plan for node", also when the nodes reachable from a target
\* contain a cycle.  (Checked under SpecPlanFair.)
C2_PlanTerminates == <>(plan_pc \in {"ok", "err"})

----------------------------------------------------------------------------
(* The claims about the executor, checked under SpecExec.                  *)

\* The nodes of S and all their transitive producers.
RECURSIVE WithProducers(_, _)
WithProducers(ns, S) ==
    LET P == S \cup UNION {{ns[n].inputs[k].node : k \in 1..Len(ns[n].inputs)} :
                               n \in S}
    IN IF P = S THEN S ELSE WithProducers(ns, P)

Ancestors(ns, n) ==
    WithProducers(ns, {ns[n].inputs[k].node : k \in 1..Len(ns[n].inputs)})

\* The input nodes (nodes without inputs) among the ancestors of the target
\* of the call of run that were given no value.
UnsetInputs ==
    {n \in Ancestors(nodes, call.target) :
        nodes[n].inputs = <<>> /\ n \notin Provided(call.inputs)}

EvalNodes == {call.evals[k].node : k \in 1..Len(call.evals)}

Before(s, a, b) ==
    \E i, j \in 1..Len(s) : i < j /\ s[i] = a /\ s[j] = b

HasReturned == IsSome(call.result)

\* C3, as claimed: when run is asked for a target one of whose ancestors is
\* an input node that was given no value, plan construction fails with
\* "Could not plan for node" before any operator eval is invoked.
C3_PlanFailsOnUnsetInput ==
    (call.name = "run" /\ UnsetInputs # {}) =>
        /\ HasReturned
        /\ Unwrap(call.result).error = "Could not plan for node"
        /\ call.evals = <<>>

\* C3, amended: for such a target plan construction succeeds, the plan
\* holds the unset input node, and when run has returned either the eval of
\* that node's operator was invoked or run failed at an earlier node of the
\* plan; the planner's error is never returned.
C3_PlanIgnoresGivenValues ==
    (call.name = "run" /\ UnsetInputs # {}) =>
        \A n \in UnsetInputs :
            /\ n \in Range(call.plan)
            /\ HasReturned =>
                  /\ Unwrap(call.result).error # "Could not plan for node"
                  /\ \/ n \in EvalNodes
                     \/ /\ Unwrap(call.result).kind # "ok"
                        /\ Before(call.plan, Unwrap(call.at), n)

\* A run that returned after it invoked the eval of an unset input node.
C3_Witness ==
    /\ call.name = "run" /\ HasReturned
    /\ UnsetInputs \cap EvalNodes # {}

\* C7: a call of run on a state left behind by any earlier calls returns
\* what Model::run returns for the same model, inputs and target on a new
\* state.
C7_RunIsDeterministic ==
    (call.name = "run" /\ HasReturned) =>
        Unwrap(call.result) = ModelRun(nodes, call.inputs, call.target)

\* A run that returned tensors on a state whose slots held values when it
\* was called, one of them for a node the run then evaluated.
C7_Witness ==
    /\ call.name = "run" /\ HasReturned /\ call.reused
    /\ Unwrap(call.result).kind = "ok"
    /\ EvalNodes # {}

\* C8: compute_one never panics while it gathers its inputs: an empty
\* producer slot and an output index that is not below the number of
\* outputs of the producer are both returned as errors.
C8_ComputeOneNeverPanics ==
    HasReturned => Unwrap(call.result).kind # "panic"

\* The tensors compute_one is to pass to eval for node n according to C9:
\* those of the inputs that have an output index.
RECURSIVE TensorInputs(_, _)
TensorInputs(outs, inputs) ==
    IF inputs = <<>> THEN <<>>
    ELSE LET i == Head(inputs)
         IN IF IsNone(i.output) THEN TensorInputs(outs, Tail(inputs))
            ELSE <<Unwrap(outs[i.node])[Unwrap(i.output) + 1]>>
                     \o TensorInputs(outs, Tail(inputs))

\* The slots of the producers of n are filled and hold the outputs its
\* tensor inputs name.
InputsReady(ns, outs, n) ==
    \A k \in 1..Len(ns[n].inputs) :
        LET i == ns[n].inputs[k]
        IN /\ IsSome(outs[i.node])
           /\ IsSome(i.output) => Unwrap(i.output) < Len(Unwrap(outs[i.node]))

HasControlInput(ns, n) ==
    \E k \in 1..Len(ns[n].inputs) : IsNone(ns[n].inputs[k].output)

\* C9: compute_one for a node that has a control-only input, the outputs of
\* all its producers being there, invokes eval with the tensors of the
\* other inputs only (its producers do not change in the call).
C9_ControlInputFeedsNoTensor ==
    (/\ call.name = "compute_one" /\ HasReturned
     /\ HasControlInput(nodes, call.target)
     /\ InputsReady(nodes, outputs, call.target)) =>
        call.evals = <<[node |-> call.target,
                        inputs |-> TensorInputs(outputs, nodes[call.target].inputs)]>>

\* C10: while run executes and when it has returned, no node whose value
\* was given in the inputs has been evaluated, its slot still holds the
\* given tensor (until the final take, if it is the target), every eval was
\* given the given tensor for each input that names such a node, and no
\* node was evaluated twice.
C10_GivenValuesAreKept ==
    call.name = "run" =>
        /\ \A k \in 1..Len(call.evals) :
              /\ call.evals[k].node \notin Provided(call.inputs)
              /\ \A j \in 1..Len(call.evals) :
                    call.evals[j].node = call.evals[k].node => j = k
              /\ \A m \in 1..Len(call.evals[k].inputs) :
                    LET i == nodes[call.evals[k].node].inputs[m]
                    IN i.node \in Provided(call.inputs) =>
                           call.evals[k].inputs[m] = Given(i.node)
        /\ \A n \in Provided(call.inputs) :
              \/ outputs[n] = Some(<<Given(n)>>)
              \/ /\ n = call.target /\ HasReturned
                 /\ Unwrap(call.result) = Ok(<<Given(n)>>)
                 /\ IsNone(outputs[n])

\* A run that returned tensors computed from a given value.
C10_Witness ==
    /\ call.name = "run" /\ HasReturned
    /\ Unwrap(call.result).kind = "ok"
    /\ \E k \in 1..Len(call.evals) :
          \E m \in 1..Len(call.evals[k].inputs) :
              nodes[call.evals[k].node].inputs[m].node \in Provided(call.inputs)

\* What the eval of node n returned in the call of run, from the inputs
\* recorded for it.
Evaluated(n) ==
    LET k == CHOOSE j \in 1..Len(call.evals) : call.evals[j].node = n
    IN Eval(nodes[n].op, call.evals[k].inputs).value

RunSucceeded ==
    call.name = "run" /\ HasReturned /\ Unwrap(call.result).kind = "ok"

\* C11: a successful run returns the outputs of the target (the given
\* tensor, or what the eval of the target returned) and leaves the slot of
\* the target empty, so that a take of the target now fails with "Value is
\* not computed"; the slot of every other node the run evaluated holds what
\* its eval returned.
C11_RunConsumesTarget ==
    RunSucceeded =>
        /\ call.target \in Provided(call.inputs) \cup EvalNodes
        /\ Unwrap(call.result).value =
              IF call.target \in Provided(call.inputs)
              THEN <<Given(call.target)>> ELSE Evaluated(call.target)
        /\ IsNone(outputs[call.target])
        /\ Take(outputs, call.target).result = Err("Value is not computed")
        /\ \A n \in EvalNodes \ {call.target} : outputs[n] = Some(Evaluated(n))

\* A successful run that evaluated its target and another node.
C11_Witness ==
    /\ RunSucceeded
    /\ call.target \in EvalNodes
    /\ EvalNodes \ {call.target} # {}

\* C12: whenever Plan::run is to call compute_one for a node of the plan,
\* the slot of every producer of the node is filled, and run never returns
\* the error of an empty producer slot.
C12_ProducersAreDone ==
    call.name = "run" =>
        /\ (exec_pc = "running" /\ todo # <<>> /\ IsNone(outputs[Head(todo)])) =>
              \A k \in 1..Len(nodes[Head(todo)].inputs) :
                  IsSome(outputs[nodes[Head(todo)].inputs[k].node])
        /\ HasReturned => Unwrap(call.result).error # "precursor not done"

\* Plan::run is to call compute_one for a node one of whose producers was
\* evaluated earlier in the same run.
C12_Witness ==
    /\ call.name = "run" /\ exec_pc = "running" /\ todo # <<>>
    /\ IsNone(outputs[Head(todo)])
    /\ \E k \in 1..Len(nodes[Head(todo)].inputs) :
          nodes[Head(todo)].inputs[k].node \in EvalNodes

----------------------------------------------------------------------------
(* The claims about Model::new, checked under SpecNew.                     *)

\* The node an input string names: what follows the "^" of a control
\* input, what precedes the ":" of another one.
NamedBy(i) == IF StartsWith(i, "^") THEN Replace(i, "^") ELSE Splitn2(i, ":")[1]

\* The k-th input string of the j-th node definition names a node that no
\* earlier node definition defines.
NamesUnknownNode(j, k) ==
    NamedBy(graph[j].input[k]) \notin {graph[m].name : m \in 1..(j - 1)}

NewReturned == new_pc # "for"

\* C13: Model::new returns no Model for a graph one of whose input strings
\* names a node that is not defined earlier in the graph, and when that
\* string is the first one Model::new cannot resolve the error is "No node
\* found"; in a Model it returns, node i has id i and each of its inputs
\* refers to a node with an id below i.
C13_InputsReferToEarlierNodes ==
    NewReturned =>
        LET built == Cardinality(DOMAIN nodes)
            result == Unwrap(new_result)
        IN /\ (\E j \in 1..Len(graph) : \E k \in 1..Len(graph[j].input) :
                   NamesUnknownNode(j, k)) => result.kind # "ok"
           /\ (/\ built < Len(graph)
               /\ \E k \in 1..Len(graph[built + 1].input) :
                     /\ NamesUnknownNode(built + 1, k)
                     /\ \A h \in 1..(k - 1) :
                           ParseInput(nodes_by_name, graph[built + 1].input[h]).kind = "ok")
                 => (result.kind = "err" /\ result.error = "No node found")
           /\ result.kind = "ok" =>
                 /\ DOMAIN nodes = 0..(Len(graph) - 1)
                 /\ \A i \in DOMAIN nodes :
                       /\ nodes[i].id = i
                       /\ \A k \in 1..Len(nodes[i].inputs) : nodes[i].inputs[k].node < i

\* Model::new returned "No node found" for a node definition whose input
\* names the node itself.
C13_Witness ==
    /\ NewReturned
    /\ Unwrap(new_result).error = "No node found"
    /\ LET pb == graph[Cardinality(DOMAIN nodes) + 1]
       IN \E k \in 1..Len(pb.input) : NamedBy(pb.input[k]) = pb.name

\* C14: in a Model that Model::new returned, node_id_by_name of the name of
\* a node returns the id of that node.
C14_NamesAreUnique ==
    IsSome(lookup) =>
        \A n \in DOMAIN nodes :
            nodes[n].name = Unwrap(lookup).name =>
                /\ Unwrap(lookup).result.kind = "ok"
                /\ Unwrap(lookup).result.value = n

----------------------------------------------------------------------------
(* The claims about the paths, checked under SpecPath.                     *)

\* The path addresses a fact, of the inputs or of the outputs of ctx, with
\* an index that is not below the length of that vector.
BeyondLength(ctx, path) ==
    /\ Len(path) >= 2
    /\ path[1] \in {0, 1}
    /\ path[2] >= 0
    /\ path[2] >= Len(IF path[1] = 0 THEN ctx.inputs ELSE ctx.outputs)

\* The TensorFact a path [io, i, ...] leads to in a Context.
FactAt(ctx, path) ==
    (IF path[1] = 0 THEN ctx.inputs ELSE ctx.outputs)[path[2] + 1]

\* The call that was made is set_path(context, path, value).
IsSet(path, value) ==
    /\ IsSome(path_call)
    /\ Unwrap(path_call).op = "set"
    /\ Unwrap(path_call).path = path
    /\ Unwrap(path_call).value = value

\* The call that was made sets the rank of an existing TensorFact, through
\* the path [io, i, 1], to a known k >= 0.
SetsRank(io, i, k) ==
    /\ IsSet(<<io, i, 1>>, Wrapped("Int", Some(k)))
    /\ k >= 0
    /\ i < Len(IF io = 0 THEN Unwrap(path_call).before.inputs
               ELSE Unwrap(path_call).before.outputs)

\* C15, as the specification states it: setting the rank of a TensorFact to
\* a known k >= 0 through [io, i, 1] unifies its shape with an open shape of
\* k Any dims: the call succeeds exactly when that unification does, and
\* the shape is then its result.
C15_SetRankUnifiesWithOpenShape ==
    \A io \in {0, 1}, i \in 0..MaxFacts, k \in 0..3 :
        SetsRank(io, i, k) =>
            LET pc == Unwrap(path_call)
                old == FactAt(pc.before, pc.path)
                u == ShapeUnify(old.shape, ShapeFact(TRUE, Anys(k)))
            IN /\ pc.result.kind = u.kind
               /\ u.kind = "ok" => FactAt(context, pc.path).shape = u.value

\* C15, as the code behaves: setting the rank of a TensorFact to a known
\* k >= 0 through [io, i, 1] unifies its shape with a closed shape of k Any
\* dims.  The call succeeds exactly when the shape is open with at most k
\* dims or closed with k dims; the shape is then closed with k dims, the
\* dims it had and Any for the others, and nothing else in the Context
\* changes.  A call that fails changes nothing.
C15_SetRankUnifiesWithClosedShape ==
    \A io \in {0, 1}, i \in 0..MaxFacts, k \in 0..3 :
        SetsRank(io, i, k) =>
            LET pc == Unwrap(path_call)
                old == FactAt(pc.before, pc.path)
                new == FactAt(context, pc.path)
                fits == IF old.shape.open THEN Len(old.shape.dims) <= k
                        ELSE Len(old.shape.dims) = k
            IN /\ pc.result.kind = (IF fits THEN "ok" ELSE "err")
               /\ fits =>
                     /\ ~new.shape.open
                     /\ new.shape.dims =
                            [j \in 1..k |-> IF j <= Len(old.shape.dims)
                                            THEN old.shape.dims[j] ELSE None]
                     /\ new.datatype = old.datatype
                     /\ new.value = old.value
                     /\ context = IF io = 0
                                  THEN [pc.before EXCEPT !.inputs[i + 1] = new]
                                  ELSE [pc.before EXCEPT !.outputs[i + 1] = new]
               /\ ~fits => context = pc.before

\* The rank of an open shape that knows one dim was set to a larger k, and
\* the call succeeded.
C15_Witness ==
    \E io \in {0, 1}, i \in 0..MaxFacts, k \in 0..3 :
        /\ SetsRank(io, i, k)
        /\ Unwrap(path_call).result.kind = "ok"
        /\ LET old == FactAt(Unwrap(path_call).before, Unwrap(path_call).path)
           IN /\ old.shape.open
              /\ Len(old.shape.dims) > 0
              /\ Len(old.shape.dims) < k

\* The call that was made sets the length of the inputs (io = 0) or of the
\* outputs (io = 1), through the path [io, -1], to the IntFact v.
SetsLen(io, v) == IsSet(<<io, -1>>, Wrapped("Int", v))

\* C20: the fact vectors are never resized: after any set, the inputs and
\* the outputs of the Context have the lengths they had before it.  Setting
\* a length path succeeds, without any change, iff the value is unknown or
\* equals the current length; otherwise it fails with an error, without any
\* change either.
C20_LengthIsOnlyChecked ==
    /\ IsSome(path_call) =>
           /\ Len(context.inputs) = Len(Unwrap(path_call).before.inputs)
           /\ Len(context.outputs) = Len(Unwrap(path_call).before.outputs)
    /\ \A io \in {0, 1}, v \in {None} \cup {Some(n) : n \in -1..MaxFacts + 1} :
           SetsLen(io, v) =>
               LET before == Unwrap(path_call).before
                   fs == IF io = 0 THEN before.inputs ELSE before.outputs
                   agrees == IsNone(v) \/ Unwrap(v) = Len(fs)
               IN /\ Unwrap(path_call).result.kind = (IF agrees THEN "ok" ELSE "err")
                  /\ context = before

\* C23: for every Context and every path that get_path can read, setting
\* the path to the value that was read succeeds and leaves the Context as
\* it was, the dims and the open flag of every shape included.
C23_GetThenSetIsNoOp ==
    (IsSome(path_call) /\ Unwrap(path_call).op = "set_back") =>
        /\ Unwrap(path_call).result.kind = "ok"
        /\ context = Unwrap(path_call).before

\* The variant of Wrapped that get_path returns for a path: the length of
\* a vector and the rank are an Int, [io, i, 0] is a Type, [io, i, 2] a
\* Shape, [io, i, 2, k] a Dim and [io, i, 3] a Value.
KindOf(path) ==
    IF Len(path) = 2 THEN "Int"
    ELSE IF Len(path) = 4 THEN "Dim"
    ELSE CASE path[3] = 0 -> "Type"
           [] path[3] = 1 -> "Int"
           [] path[3] = 2 -> "Shape"
           [] OTHER -> "Value"

\* The call that was made sets the length of a vector ([io, -1]) or a
\* component of an existing fact ([io, i, 0], [io, i, 1], [io, i, 2],
\* [io, i, 2, k] or [io, i, 3]).
SetsComponent ==
    /\ IsSome(path_call)
    /\ Unwrap(path_call).op = "set"
    /\ LET path == Unwrap(path_call).path
           before == Unwrap(path_call).before
       IN /\ Len(path) \in 2..4
          /\ path[1] \in {0, 1}
          /\ \/ path = <<path[1], -1>>
             \/ /\ Len(path) >= 3
                /\ path[2] >= 0
                /\ ~BeyondLength(before, path)
                /\ path[3] \in 0..3
                /\ Len(path) = 4 => (path[3] = 2 /\ path[4] >= 0)

\* C24: a set that receives a Wrapped of another variant than the one its
\* path addresses returns an error, does not panic, and leaves the Context
\* as it was.
C24_WrongVariantIsAnError ==
    (SetsComponent /\ Unwrap(path_call).value.kind # KindOf(Unwrap(path_call).path)) =>
        /\ Unwrap(path_call).result.kind = "err"
        /\ context = Unwrap(path_call).before

\* k divides m, and the quotient then.
Divides(k, m) == IF k > 0 THEN m % k = 0 ELSE m % (0 - k) = 0
Quotient(m, k) == IF k > 0 THEN m \div k ELSE (0 - m) \div (0 - k)

\* C32: setting the scaled integer (k, e) to m changes nothing when k and
\* m are zero, fails when only k is zero, fails and changes nothing when k
\* does not divide m, and otherwise sets e to m / k; after a set with
\* k # 0 that succeeds, the scaled integer reads m.
C32_SetOfScaledInteger ==
    (IsSome(path_call) /\ Unwrap(path_call).op = "set_product") =>
        LET c == Unwrap(path_call)
            m == Unwrap(c.value.fact)
        IN /\ (c.k = 0 /\ m = 0) =>
                  c.result.kind = "ok" /\ context = c.before
           /\ (c.k = 0 /\ m # 0) => c.result.kind = "err"
           /\ (c.k # 0 /\ ~Divides(c.k, m)) =>
                  c.result.kind = "err" /\ context = c.before
           /\ (c.k # 0 /\ Divides(c.k, m)) =>
                  /\ c.result = SetPath(c.before, c.path,
                                        Wrapped("Int", Some(Quotient(m, c.k))))
                  /\ c.result.kind = "ok" =>
                         ExpressionGet(ProductExpression(c.k, c.path), context)
                             = Ok(Wrapped("Int", Some(m)))

----------------------------------------------------------------------------
(* The claims about sequences of sets, checked under SpecSets.             *)

\* A TensorFact whose value is known has the closed shape and the datatype
\* of that tensor.
CrossPropagated(fact) ==
    IsSome(fact.value) =>
        /\ fact.shape = ShapeFactFrom(Unwrap(fact.value))
        /\ fact.datatype = TypeFactFrom(Unwrap(fact.value))

\* The shape fact cannot be the shape of the tensor: it has more dims, it
\* is closed with another number of dims, or one of its dims is known and
\* is not the tensor's.
ShapeContradicts(shape, tensor) ==
    \/ Len(shape.dims) > Len(tensor.shape)
    \/ ~shape.open /\ Len(shape.dims) # Len(tensor.shape)
    \/ \E k \in 1..Len(shape.dims) :
           /\ k <= Len(tensor.shape)
           /\ IsSome(shape.dims[k]) /\ Unwrap(shape.dims[k]) # tensor.shape[k]

\* The last call set the datatype or the shape of the first input fact,
\* whose value was known, to a fact that contradicts that value.
SetContradictsValue ==
    /\ IsSome(path_call)
    /\ LET c == Unwrap(path_call)
           fact == c.before.inputs[1]
       IN /\ IsSome(fact.value)
          /\ \/ /\ c.path = <<0, 0, 0>> /\ c.value.kind = "Type"
                /\ IsSome(c.value.fact)
                /\ c.value.fact # TypeFactFrom(Unwrap(fact.value))
             \/ /\ c.path = <<0, 0, 2>> /\ c.value.kind = "Shape"
                /\ ShapeContradicts(c.value.fact, Unwrap(fact.value))

\* C27: the facts of a Context start cross-propagated; after any sequence
\* of successful set calls every TensorFact whose value is a known tensor
\* has the closed shape and the datatype of that tensor, and a set of a
\* datatype or a shape that contradicts a known value fails and leaves the
\* Context as it was.
C27_ValueForcesShapeAndType ==
    /\ (IsNone(path_call) \/ Unwrap(path_call).result.kind = "ok") =>
           \A k \in 1..Len(context.inputs) : CrossPropagated(context.inputs[k])
    /\ SetContradictsValue =>
           /\ Unwrap(path_call).result.kind = "err"
           /\ context = Unwrap(path_call).before

\* The second successful set gave a value to a fact whose shape had been
\* constrained but was not yet the closed shape of the tensor.
C27_Witness ==
    /\ IsSome(path_call)
    /\ Unwrap(path_call).calls >= 2
    /\ Unwrap(path_call).result.kind = "ok"
    /\ IsNone(Unwrap(path_call).before.inputs[1].value)
    /\ IsSome(context.inputs[1].value)
    /\ Unwrap(path_call).before.inputs[1].shape.dims # <<>>
    /\ Unwrap(path_call).before.inputs[1].shape # context.inputs[1].shape

----------------------------------------------------------------------------
(* The claims about unification, checked under SpecUnify.                  *)

\* Two results of unify either both fail or are the same fact.
SameResult(r1, r2) ==
    /\ r1.kind = r2.kind
    /\ r1.kind = "ok" => r1.value = r2.value

\* C25: unification is commutative for every kind of fact: unify(x, y) and
\* unify(y, x) either both fail or return the same fact, and unify(x, Any)
\* is x; setting the datatype, the shape or the value x of a TensorFact to y
\* gives what setting y to x gives, the unification of the two.
C25_UnifyIsCommutative ==
    (IsSome(unify_call) /\ Unwrap(unify_call).op = "unify") =>
        LET c == Unwrap(unify_call)
        IN /\ SameResult(c.this, c.other)
           /\ c.y = AnyFact(c.kind) => c.this = Ok(c.x)
           /\ c.kind \in {"Type", "Shape", "Value"} =>
                  /\ c.set_this.kind = c.this.kind
                  /\ c.set_other.kind = c.this.kind
                  /\ c.this.kind = "ok" =>
                         /\ Field(c.kind, c.set_this.out) = c.this.value
                         /\ Field(c.kind, c.set_other.out) = c.this.value

\* Two different known facts were unified in vain, and two shapes of
\* different lengths, one open and one closed, were unified.
C25_Witness ==
    /\ IsSome(unify_call)
    /\ Unwrap(unify_call).op = "unify"
    /\ Unwrap(unify_call).kind = "Shape"
    /\ Unwrap(unify_call).this.kind = "ok"
    /\ Unwrap(unify_call).x.open /\ ~Unwrap(unify_call).y.open
    /\ Len(Unwrap(unify_call).x.dims) < Len(Unwrap(unify_call).y.dims)
    /\ Unwrap(unify_call).this.value # Unwrap(unify_call).x
    /\ Unwrap(unify_call).this.value # Unwrap(unify_call).y

\* C26: unification is associative for every kind of fact:
\* unify(unify(x, y), z) and unify(x, unify(y, z)) either both fail or
\* return the same fact.
C26_UnifyIsAssociative ==
    (IsSome(unify_call) /\ Unwrap(unify_call).op = "nested") =>
        SameResult(Unwrap(unify_call).this, Unwrap(unify_call).other)

\* Three shapes of three different lengths, open and closed ones, were
\* unified into one.
C26_Witness ==
    /\ IsSome(unify_call)
    /\ Unwrap(unify_call).op = "nested"
    /\ Unwrap(unify_call).kind = "Shape"
    /\ Unwrap(unify_call).this.kind = "ok"
    /\ LET c == Unwrap(unify_call)
       IN /\ Cardinality({Len(c.x.dims), Len(c.y.dims), Len(c.z.dims)}) = 3
          /\ Cardinality({c.x.open, c.y.open, c.z.open}) = 2

----------------------------------------------------------------------------
(* The claims about the operators, checked under SpecOps.                  *)

\* eval was called on the operator `name`.
Evals(name) == IsSome(eval_call) /\ Unwrap(eval_call).op.name = name

\* The inputs given to Pack are arrays of its datatype, all of one shape,
\* at least one of them, and the axis is at most their rank.
CanBePacked ==
    /\ Evals("Pack")
    /\ LET c == Unwrap(eval_call)
       IN /\ c.inputs # <<>>
          /\ \A j \in 1..Len(c.inputs) :
                 /\ c.inputs[j].datatype = c.op.T
                 /\ c.inputs[j].shape = c.inputs[1].shape
          /\ c.op.axis <= Len(c.inputs[1].shape)

\* C28, as stated: eval with another number of inputs than the operator
\* takes (one for a map, two for a binary operator and for Pad, n for a
\* Pack built with n) returns an error.
C28_WrongArityIsAnError ==
    IsSome(eval_call) =>
        LET c == Unwrap(eval_call)
            arity == IF c.op.name = "Map" THEN 1
                     ELSE IF c.op.name = "Pack" THEN c.op.n
                     ELSE 2
        IN Len(c.inputs) # arity => c.result.kind = "err"

\* C28, amended: eval of a map returns the error "Expected 1 arg" exactly
\* when it is not given one input, eval of a binary operator and of Pad the
\* error "Expected 2 args" exactly when they are not given two; Pack::eval
\* never looks at n: it fails on no input at all, and stacks the inputs it
\* is given, however many, when they can be packed.
C28_ArityOfFixedOperators ==
    IsSome(eval_call) =>
        LET c == Unwrap(eval_call)
        IN /\ c.op.name = "Map" =>
                  (Len(c.inputs) # 1 <=> c.result = Err("Expected 1 arg"))
           /\ c.op.name \in {"Bin", "Pad"} =>
                  (Len(c.inputs) # 2 <=> c.result = Err("Expected 2 args"))
           /\ c.op.name = "Pack" =>
                  /\ c.inputs = <<>> => c.result.kind = "err"
                  /\ CanBePacked =>
                         /\ c.result.kind = "ok"
                         /\ c.result.value[1].shape[c.op.axis + 1] = Len(c.inputs)

\* A Pack built with n = 3 was given one input and returned a tensor.
C28_Witness ==
    /\ CanBePacked
    /\ Unwrap(eval_call).op.n = 3
    /\ Len(Unwrap(eval_call).inputs) = 1
    /\ Unwrap(eval_call).result.kind = "ok"

\* C29: Pack::eval on k inputs of one shape s, with an axis a <= Len(s),
\* returns one tensor whose shape is s with k inserted at position a, and
\* whose slice j along the axis a is the input j.
C29_PackStacksTheInputs ==
    CanBePacked =>
        LET c == Unwrap(eval_call)
            s == c.inputs[1].shape
            a == c.op.axis
            out == c.result.value[1]
        IN /\ c.result.kind = "ok"
           /\ Len(c.result.value) = 1
           /\ out.datatype = c.op.T
           /\ out.shape = SubSeq(s, 1, a) \o <<Len(c.inputs)>> \o SubSeq(s, a + 1, Len(s))
           /\ Len(out.data) = Product(out.shape)
           /\ \A index \in Indices(out.shape) :
                  At(out, index) = At(c.inputs[index[a + 1] + 1], RemoveAxis(index, a))

\* Several matrices with several rows and columns were packed along their
\* second axis.
C29_Witness ==
    /\ CanBePacked
    /\ Len(Unwrap(eval_call).inputs) >= 2
    /\ Unwrap(eval_call).inputs[1].shape = <<2, 3>>
    /\ Unwrap(eval_call).op.axis = 1
    /\ Unwrap(eval_call).result.kind = "ok"

\* The inputs given to Pad are an array of its datatype and the paddings,
\* an i32 array with one row for each dimension of the input and two
\* columns, none of them negative.
CanBePadded ==
    /\ Evals("Pad")
    /\ LET c == Unwrap(eval_call)
       IN /\ Len(c.inputs) = 2
          /\ c.inputs[1].datatype = c.op.T
          /\ c.inputs[2].datatype = "I32"
          /\ c.inputs[2].shape = <<Len(c.inputs[1].shape), 2>>
          /\ \A k \in 1..Len(c.inputs[2].data) : c.inputs[2].data[k] >= 0

\* C30: Pad::eval returns one tensor whose dimension d is the input's plus
\* the two paddings of d; its element at an index is the input's element at
\* the index minus the leading paddings when that is inside the input, and
\* zero elsewhere.
C30_PadSurroundsWithZeros ==
    CanBePadded =>
        LET c == Unwrap(eval_call)
            input == c.inputs[1]
            before(d) == At(c.inputs[2], <<d - 1, 0>>)
            after(d) == At(c.inputs[2], <<d - 1, 1>>)
            rank == Len(input.shape)
            out == c.result.value[1]
        IN /\ c.result.kind = "ok"
           /\ Len(c.result.value) = 1
           /\ out.datatype = c.op.T
           /\ out.shape = [d \in 1..rank |-> input.shape[d] + before(d) + after(d)]
           /\ Len(out.data) = Product(out.shape)
           /\ \A index \in Indices(out.shape) :
                  At(out, index) =
                      IF \A d \in 1..rank :
                             /\ before(d) <= index[d]
                             /\ index[d] < before(d) + input.shape[d]
                      THEN At(input, [d \in 1..rank |-> index[d] - before(d)])
                      ELSE 0

\* A matrix was padded with different paddings before and after its rows
\* and its columns.
C30_Witness ==
    /\ CanBePadded
    /\ Unwrap(eval_call).inputs[1].shape = <<2, 3>>
    /\ Unwrap(eval_call).inputs[2].data = <<1, 0, 2, 1>>
    /\ Unwrap(eval_call).result.kind = "ok"

----------------------------------------------------------------------------
(* The claims about the solver, checked under SpecSolver.                  *)

\* C4: Solver::infer terminates by reaching the fixed point: whenever the
\* loop is left, it is left by the return that follows a pass without
\* progress and without new rules.
C4_InferReachesFixedPoint ==
    solver_pc \notin {"while", "for"} =>
        /\ solver_pc = "returned"
        /\ ~changed
        /\ added_rules = <<>>

\* infer was called with the one rule `rule` and has left its loop.
InferLeftWith(rule) ==
    /\ solver_pc \notin {"off", "while", "for"}
    /\ Len(rules) = 1
    /\ rules[1].rule = rule

\* C16: the rule equals(inputs[0].rank, 2), run on a TensorFact that knows
\* nothing, yields a closed shape of two Any dims, the datatype and the
\* value still unknown; the rank path of that fact then returns 2.
C16_EqualsRankClosesShape ==
    ( /\ InferLeftWith(EqualsRule(<<VariableExpression(<<0, 0, 1>>),
                                    ConstantExpression(Wrapped("Int", Some(2)))>>))
      /\ facts[1] = <<TensorFactNew>> )
    => /\ solver_pc = "returned"
       /\ context.inputs = <<TensorFact(None, FALSE, <<None, None>>, None)>>
       /\ context.outputs = facts[2]
       /\ GetPath(context, <<0, 0, 1>>) = Ok(Wrapped("Int", Some(2)))

\* C17: the rule equals(inputs[0].shape[1], 0), run on a TensorFact that
\* knows nothing, yields an open shape of two dims, Any and 0; the rank
\* stays unknown.
C17_EqualsDimKeepsShapeOpen ==
    ( /\ InferLeftWith(EqualsRule(<<VariableExpression(<<0, 0, 2, 1>>),
                                    ConstantExpression(Wrapped("Int", Some(0)))>>))
      /\ facts[1] = <<TensorFactNew>> )
    => /\ solver_pc = "returned"
       /\ context.inputs = <<TensorFact(None, TRUE, <<None, Some(0)>>, None)>>
       /\ context.outputs = facts[2]
       /\ GetPath(context, <<0, 0, 1>>) = Ok(Wrapped("Int", None))

\* C18: with the rule equals(inputs[0].shape[1], outputs[0].shape[1]), when
\* only the dim 1 of the output is known, infer makes the dim 1 of the
\* input equal to it (the shape of the input becomes open with two dims)
\* and returns the output as it was; and the other way round when only the
\* dim 1 of the input is known.
C18_EqualsPropagatesBackward ==
    LET known == TensorFact(None, FALSE, <<None, Some(2), None>>, None)
        learnt == TensorFact(None, TRUE, <<None, Some(2)>>, None)
    IN InferLeftWith(EqualsRule(<<VariableExpression(<<0, 0, 2, 1>>),
                                  VariableExpression(<<1, 0, 2, 1>>)>>))
       => /\ (facts = <<(<<TensorFactNew>>), <<known>>>>)
                 => /\ solver_pc = "returned"
                    /\ context = ContextNew(<<(<<learnt>>), <<known>>>>)
          /\ (facts = <<(<<known>>), <<TensorFactNew>>>>)
                 => /\ solver_pc = "returned"
                    /\ context = ContextNew(<<(<<known>>), <<learnt>>>>)

\* The item of a rule reads a path of the Context that knows nothing.
ItemIsUnknown(item, ctx) ==
    /\ item.expr = "Variable"
    /\ GetPath(ctx, item.path).kind = "ok"
    /\ IsNone(GetPath(ctx, item.path).value.fact)

\* C19: an Equals rule none of whose items knows anything leaves the
\* Context as it was, reports no progress and is not marked as used: infer
\* returns the facts as they were given.
C19_EqualsOfUnknownsChangesNothing ==
    ( /\ solver_pc \notin {"off", "while", "for"}
      /\ Len(rules) = 1
      /\ rules[1].rule.rule = "Equals"
      /\ \A k \in 1..Len(rules[1].rule.items) :
             ItemIsUnknown(rules[1].rule.items[k], ContextNew(facts)) )
    => /\ solver_pc = "returned"
       /\ context = ContextNew(facts)
       /\ ~rules[1].used
       /\ ~changed

\* C21: a get or a set through a path whose fact index is not below the
\* length of the vector it addresses fails with the bounds error and changes
\* nothing; infer with an Equals rule over such a path returns an error and
\* leaves the vectors as they were given.
C21_IndexBeyondLengthIsAnError ==
    /\ \A path \in Paths :
           BeyondLength(context, path) =>
               /\ GetPath(context, path).kind = "err"
               /\ GetPath(context, path).error
                      = "There are not that many facts in the given set"
               /\ \A value \in Values :
                      SetPath(context, path, value)
                          = Set("err", "There are not that many facts in the given set",
                                context)
    /\ ( /\ solver_pc \notin {"off", "while", "for"}
         /\ Len(rules) = 1
         /\ rules[1].rule.rule = "Equals"
         /\ \E k \in 1..Len(rules[1].rule.items) :
                /\ rules[1].rule.items[k].expr = "Variable"
                /\ BeyondLength(ContextNew(facts), rules[1].rule.items[k].path) )
       => /\ solver_pc = "failed"
          /\ context = ContextNew(facts)

\* C22: infer with one Equals rule over constants returns the facts as they
\* were given when the constants are all equal, and fails with an error
\* when two of them differ.
C22_EqualsOfConstants ==
    ( /\ solver_pc \notin {"off", "while", "for"}
      /\ Len(rules) = 1
      /\ rules[1].rule.rule = "Equals"
      /\ \A k \in 1..Len(rules[1].rule.items) :
             rules[1].rule.items[k].expr = "Constant" )
    => LET items == rules[1].rule.items
       IN /\ context = ContextNew(facts)
          /\ solver_pc = IF \A j, k \in 1..Len(items) : items[j].value = items[k].value
                         THEN "returned" ELSE "failed"

\* The value an item of a rule stands for in a Context: the constant, the
\* fact at the path, or k times the fact at the path; None when unknown.
ItemValue(item, ctx) ==
    IF item.expr = "Constant" THEN item.value.fact
    ELSE LET v == GetPath(ctx, item.path).value.fact
         IN IF item.expr = "Variable" \/ IsNone(v) THEN v
            ELSE Some(item.k * Unwrap(v))

\* The items of the rule that are unknown in a Context, and the sum of the
\* first n items when they are known.
UnknownItems(items, ctx) == {k \in 1..Len(items) : IsNone(ItemValue(items[k], ctx))}

RECURSIVE SumOfItems(_, _, _)
SumOfItems(items, ctx, n) ==
    IF n = 0 THEN 0
    ELSE SumOfItems(items, ctx, n - 1) + Unwrap(ItemValue(items[n], ctx))

\* infer was called with one EqualsZero rule, every item of which can be
\* read in the facts given, and has left its loop.
InferLeftWithEqualsZero ==
    /\ solver_pc \notin {"off", "while", "for"}
    /\ Len(rules) = 1
    /\ rules[1].rule.rule = "EqualsZero"
    /\ \A k \in 1..Len(rules[1].rule.items) :
           \/ rules[1].rule.items[k].expr = "Constant"
           \/ GetPath(ContextNew(facts), rules[1].rule.items[k].path).kind = "ok"

\* C31: an EqualsZero rule with exactly one unknown item, when it succeeds,
\* leaves every item known and the items summing to zero; with no unknown
\* item it returns, with an error exactly when the sum is not zero; with
\* two or more unknown items it leaves the Context as it was.
C31_EqualsZeroSolvesForOneUnknown ==
    InferLeftWithEqualsZero =>
        LET items == rules[1].rule.items
            unknown == UnknownItems(items, ContextNew(facts))
        IN /\ (Cardinality(unknown) = 1 /\ solver_pc = "returned") =>
                  /\ UnknownItems(items, context) = {}
                  /\ SumOfItems(items, context, Len(items)) = 0
           /\ unknown = {} =>
                  /\ solver_pc \in {"returned", "failed"}
                  /\ solver_pc = "failed"
                         <=> SumOfItems(items, context, Len(items)) # 0
           /\ Cardinality(unknown) >= 2 => context = ContextNew(facts)

\* The item a Given rule is gated by is known in a Context.
IsGround(item, ctx) ==
    /\ ExpressionGet(item, ctx).kind = "ok"
    /\ IsSome(ExpressionGet(item, ctx).value.fact)

\* C33: the closure of a Given rule is invoked (the rule is then marked as
\* used, and skipped from then on) only when its item is known; a Given
\* rule that is the first rule of the solver and whose item is known in
\* the facts given has been invoked when infer leaves its loop, and a Given
\* rule whose item is still unknown when infer returns is still unused.
C33_GivenFiresOnceItsItemIsKnown ==
    \A k \in 1..Len(rules) :
        rules[k].rule.rule = "Given" =>
            LET item == rules[k].rule.items[1]
            IN /\ rules[k].used => IsGround(item, context)
               /\ ( /\ solver_pc \notin {"off", "while", "for"}
                    /\ k = 1
                    /\ IsGround(item, ContextNew(facts)) ) => rules[k].used
               /\ ( /\ solver_pc = "returned"
                    /\ ~IsGround(item, context) ) => ~rules[k].used

\* The rules infer was called with, in the order they were added.
RulesGiven == [k \in 1..Len(rules) |-> rules[k].rule]

\* C36: the result of infer does not depend on the order in which the
\* rules were added: with the same rules in any other order and the same
\* facts, infer fails if it fails here and returns the same facts if it
\* returns here; the four rules of tests::solver_ranks, in any order, turn
\* a TensorFact that knows nothing into one of shape [3, 3, 3].
C36_OrderOfRulesIsIrrelevant ==
    (solver_pc = "while" /\ cursor = 0) =>
        /\ \A rs \in Reordered(RulesGiven) :
               /\ Infer(rs, facts).kind = "ok" <=> Infer(RulesGiven, facts).kind = "ok"
               /\ Infer(rs, facts).value = Infer(RulesGiven, facts).value
        /\ (RulesGiven \in Reordered(SolverRanks) /\ facts = <<(<<TensorFactNew>>), <<>>>>) =>
               Infer(RulesGiven, facts)
                   = Ok(<<(<<TensorFact(None, FALSE, <<Some(3), Some(3), Some(3)>>, None)>>),
                          <<>>>>)

----------------------------------------------------------------------------
(* Claims on the streaming step of the binary element-wise operators.      *)

\* The calls of step that returned something other than none, in order.
Returns == SelectSeq(stream, LAMBDA c : c.result # Ok(None))

\* What step returns for the pair of chunks (a, b): eval(a, b), or its error.
StepOf(a, b) ==
    LET out == ElementBinEval("I32", <<a, b>>)
    IN IF out.kind = "ok" THEN Ok(Some(out.value)) ELSE out

\* The queue of an input once the chunks of a call are appended to it.
AfterAppending(c, input) ==
    Len(c.before.queues[input + 1])
        + (IF IsSome(c.inputs[input + 1][2]) THEN 1 ELSE 0)

\* C35: over the calls of step made on the two-queue buffer of a binary
\* element-wise operator, the i-th return that is not none is eval of the i-th
\* chunk received on input 0 and the i-th chunk received on input 1; a call
\* returns none exactly when one of the two queues is empty once its chunks are
\* appended; and the queues hold, in order, exactly the chunks received and not
\* yet paired, so that no chunk is dropped or used twice.
C35_StepPairsChunksFirstInFirstOut ==
    buffer.type = "Queues" =>
        /\ \A i \in 1..Len(Returns) :
               /\ i <= Len(Received(0)) /\ i <= Len(Received(1))
               /\ Returns[i].result = StepOf(Received(0)[i], Received(1)[i])
        /\ \A k \in 1..Len(stream) :
               stream[k].result = Ok(None)
                   <=> (AfterAppending(stream[k], 0) = 0 \/ AfterAppending(stream[k], 1) = 0)
        /\ \A input \in {0, 1} :
               buffer.queues[input + 1]
                   = SubSeq(Received(input), Len(Returns) + 1, Len(Received(input)))

\* Two chunks wait on input 0 before the first chunk of input 1 arrives; two
\* outputs are then emitted while a third chunk of input 0 still waits.
C35_Witness ==
    /\ buffer.type = "Queues"
    /\ Len(stream) = 4
    /\ stream[1].result = Ok(None) /\ stream[2].result = Ok(None)
    /\ Len(stream[3].before.queues[1]) = 2
    /\ Len(Returns) = 2
    /\ Returns[1].result.kind = "ok" /\ Returns[2].result.kind = "ok"
    /\ Len(buffer.queues[1]) = 1 /\ buffer.queues[2] = <<>>

----------------------------------------------------------------------------
(* The plan of a run and the values of the state.                          *)

\* The plan that run built was not refused by the planner.
PlanReturned ==
    /\ call.name = "run"
    /\ HasReturned => Unwrap(call.result).error # "Could not plan for node"

\* C37: the plan that Plan::for_model returns for a target holds exactly the
\* target and its transitive producers, each node id once, and it is the plan
\* returned for that model and target whatever the slots of the ModelState
\* held when run was called and whatever values run was given.
C37_PlanIsTargetsAndProducers ==
    PlanReturned =>
        /\ Range(call.plan) = WithProducers(nodes, {call.target})
        /\ \A i, j \in 1..Len(call.plan) : call.plan[i] = call.plan[j] => i = j
        /\ call.plan = ForModel(nodes, <<call.target>>).order

\* A run on a state whose slots held values, given a value for a node of the
\* plan; the plan holds the target, its producer and the producer of that one,
\* which is not a producer of the target itself.
C37_Witness ==
    /\ PlanReturned /\ call.reused
    /\ Provided(call.inputs) \cap Range(call.plan) # {}
    /\ Len(call.plan) = 3
    /\ \E n \in Range(call.plan) :
           \A k \in 1..Len(nodes[call.target].inputs) :
               nodes[call.target].inputs[k].node # n /\ n # call.target

----------------------------------------------------------------------------
(* The frame of Context::set and what a failing call leaves behind.        *)

\* The call that was made is a set, through set_path.
HasSet == IsSome(path_call) /\ Unwrap(path_call).op \in {"set", "set_back"}

\* The call that was made is a set through a path that addresses fact i of
\* the inputs (io = 0) or of the outputs (io = 1).
SetsFact(io, i) ==
    /\ HasSet
    /\ Len(Unwrap(path_call).path) >= 2
    /\ Unwrap(path_call).path[1] = io /\ Unwrap(path_call).path[2] = i

\* The facts of ctx other than fact i of vector io.
OtherFacts(ctx, io, i) ==
    <<[k \in 1..Len(ctx.inputs) |->
           IF io = 0 /\ k = i + 1 THEN <<>> ELSE <<ctx.inputs[k]>>],
      [k \in 1..Len(ctx.outputs) |->
           IF io = 1 /\ k = i + 1 THEN <<>> ELSE <<ctx.outputs[k]>>]>>

\* C38: a successful set through a path that addresses fact i of the inputs
\* or of the outputs changes that TensorFact only: every other fact of both
\* vectors is as before; and a set through the datatype path [io, i, 0]
\* changes neither the shape nor the value of fact i.
C38_SetChangesOneFactOnly ==
    \A io \in {0, 1}, i \in 0..MaxFacts :
        (SetsFact(io, i) /\ Unwrap(path_call).result.kind = "ok") =>
            LET pc == Unwrap(path_call)
            IN /\ OtherFacts(context, io, i) = OtherFacts(pc.before, io, i)
               /\ pc.path = <<io, i, 0>> =>
                     /\ FactAt(context, pc.path).shape = FactAt(pc.before, pc.path).shape
                     /\ FactAt(context, pc.path).value = FactAt(pc.before, pc.path).value

\* The datatype of the first input, whose shape knows a dim, was set and
\* became known, while the outputs hold a fact.
C38_Witness ==
    /\ SetsFact(0, 0) /\ Unwrap(path_call).result.kind = "ok"
    /\ Unwrap(path_call).path = <<0, 0, 0>>
    /\ context.inputs[1].datatype # Unwrap(path_call).before.inputs[1].datatype
    /\ context.inputs[1].shape.dims # <<>>
    /\ context.outputs # <<>>

\* C39: a set that returns an error leaves the Context exactly as it was
\* before the call, whatever the path, also when a value set unifies the
\* value and then fails on the shape or on the datatype.
C39_FailingSetChangesNothing ==
    (HasSet /\ Unwrap(path_call).result.kind = "err") =>
        context = Unwrap(path_call).before

----------------------------------------------------------------------------
(* The rules of Pack against its eval.                                     *)

\* infer was called with the rules of Pack for n inputs and the axis, on n
\* input facts of the fully known shape s.
InfersPack(n, axis, s) ==
    /\ solver_pc # "off"
    /\ facts = PackFacts(n, s)
    /\ Len(rules) >= 7
    /\ [k \in 1..7 |-> rules[k].rule] = PackRules(n, axis)

\* The shape of what Pack::eval returns for n tensors of shape s.
PackedShape(n, axis, s) ==
    PackEval(OpNew("Pack", "I32", n, axis), [j \in 1..n |-> TensorOf("I32", s, j)]).value[1].shape

\* C40: for Pack with n inputs and the axis a, on inputs whose shapes are fully
\* known, closed and equal to s, infer with the rules of Pack returns, and the
\* shape of the output is then closed and fully known: s with n inserted at
\* position a, which is the shape of the tensor eval returns for such inputs.
C40_PackRulesAgreeWithEval ==
    \A n \in 1..(MaxPack + 1), s \in PackShapes, axis \in 0..2 :
        InfersPack(n, axis, s) =>
            /\ solver_pc \notin {"panicked", "failed"}
            /\ solver_pc = "returned" =>
                  /\ context.outputs[1].shape
                         = ShapeFact(FALSE, [k \in 1..(Len(s) + 1) |->
                                                Some(PackedShape(n, axis, s)[k])])
                  /\ PackedShape(n, axis, s)
                         = SubSeq(s, 1, axis) \o <<n>> \o SubSeq(s, axis + 1, Len(s))

====
